---- MODULE Spec2Model ----
(***************************************************************************)
(* Model of test-infrastructure/proxy-server/thrift_decoder.py: the        *)
(* ThriftDecoder byte cursor, message framer, recursive struct decoder,    *)
(* skip path and field-name resolver.                                      *)
(*                                                                         *)
(* A decoder is the record s:                                              *)
(*   data            the immutable buffer (bytes 0..255, 1-indexed here)   *)
(*   pos             self.pos, the tracked offset                          *)
(*   spos            the read position of self.stream (BytesIO)            *)
(*   field_name_map  self.field_name_map, a sequence of [id, name]         *)
(*   colls, structs, reads, recov, mind   history variables, not program   *)
(*                   state: the collection loops run, the read_struct      *)
(*                   calls ended, the field headers read, the recoveries   *)
(*                   made, and the least max_depth any call received       *)
(* Every read returns [ok, exc, msg, val, s]: ok = FALSE is a raised       *)
(* exception of class exc with text msg; s is the decoder afterwards.      *)
(* Where a result is used more than once it is bound as the parameter of   *)
(* a local operator ("LET Then(r) == ... IN Then(read_byte(s))").          *)
(***************************************************************************)
EXTENDS Integers, Sequences, FiniteSets, TLC

VARIABLES data, thrift_types_available, pc, dec, stack, ret, twin, hdr, result

vars == <<data, thrift_types_available, pc, dec, stack, ret, twin, hdr, result>>

\* ---------------------------------------------------------------- constants

T_STOP == 0
T_VOID == 1
T_BOOL == 2
T_BYTE == 3
T_DOUBLE == 4
T_I16 == 6
T_I32 == 8
T_I64 == 10
T_STRING == 11
T_STRUCT == 12
T_MAP == 13
T_SET == 14
T_LIST == 15

MESSAGE_TYPE_CALL == 1
MESSAGE_TYPE_REPLY == 2

\* read_struct / read_field_value / skip_field: max_depth: int = 32
DefaultMaxDepth == 32
\* _read_map / _read_set / _read_list: if size > 10000
MaxCollection == 10000
\* read_string: if length > 10 * 1024 * 1024
MaxStringLength == 10485760
\* read_string: data[:50].hex()
PreviewBytes == 50

TYPE_NAMES(t) ==
    CASE t = 0 -> "STOP"   [] t = 1 -> "VOID"    [] t = 2 -> "BOOL"
      [] t = 3 -> "BYTE"   [] t = 4 -> "DOUBLE"  [] t = 6 -> "I16"
      [] t = 8 -> "I32"    [] t = 10 -> "I64"    [] t = 11 -> "STRING"
      [] t = 12 -> "STRUCT" [] t = 13 -> "MAP"   [] t = 14 -> "SET"
      [] t = 15 -> "LIST"  [] t = 16 -> "UTF8"   [] t = 17 -> "UTF16"
      [] OTHER -> "type_" \o ToString(t)

MESSAGE_TYPE_NAMES(t) ==
    CASE t = 1 -> "CALL" [] t = 2 -> "REPLY" [] t = 3 -> "EXCEPTION"
      [] t = 4 -> "ONEWAY"
      [] OTHER -> "UNKNOWN(" \o ToString(t) \o ")"

\* The method names of KNOWN_METHODS, each with its UTF-8 bytes.
KNOWN_METHODS ==
    { [name |-> "OpenSession", text |-> <<79, 112, 101, 110, 83, 101, 115, 115, 105, 111, 110>>],
      [name |-> "CloseSession", text |-> <<67, 108, 111, 115, 101, 83, 101, 115, 115, 105, 111, 110>>],
      [name |-> "ExecuteStatement", text |-> <<69, 120, 101, 99, 117, 116, 101, 83, 116, 97, 116, 101, 109, 101, 110, 116>>],
      [name |-> "GetOperationStatus", text |-> <<71, 101, 116, 79, 112, 101, 114, 97, 116, 105, 111, 110, 83, 116, 97, 116, 117, 115>>],
      [name |-> "FetchResults", text |-> <<70, 101, 116, 99, 104, 82, 101, 115, 117, 108, 116, 115>>],
      [name |-> "CloseOperation", text |-> <<67, 108, 111, 115, 101, 79, 112, 101, 114, 97, 116, 105, 111, 110>>],
      [name |-> "CancelOperation", text |-> <<67, 97, 110, 99, 101, 108, 79, 112, 101, 114, 97, 116, 105, 111, 110>>],
      [name |-> "GetResultSetMetadata", text |-> <<71, 101, 116, 82, 101, 115, 117, 108, 116, 83, 101, 116, 77, 101, 116, 97, 100, 97, 116, 97>>],
      [name |-> "GetSchemas", text |-> <<71, 101, 116, 83, 99, 104, 101, 109, 97, 115>>],
      [name |-> "GetTables", text |-> <<71, 101, 116, 84, 97, 98, 108, 101, 115>>],
      [name |-> "GetColumns", text |-> <<71, 101, 116, 67, 111, 108, 117, 109, 110, 115>>],
      [name |-> "GetCatalogs", text |-> <<71, 101, 116, 67, 97, 116, 97, 108, 111, 103, 115>>],
      [name |-> "GetTableTypes", text |-> <<71, 101, 116, 84, 97, 98, 108, 101, 84, 121, 112, 101, 115>>],
      [name |-> "GetTypeInfo", text |-> <<71, 101, 116, 84, 121, 112, 101, 73, 110, 102, 111>>] }

\* ------------------------------------------------------------ Python values
\* A Python str is one of three records: decoded UTF-8 text (kept as its
\* bytes), the "<binary:...>" hex preview (kept as the previewed bytes and
\* the "..." flag; hex is one-to-one on bytes), or a literal written in the
\* source.  A wire text that spells out a literal is not identified with it.
StrText(bytes) == [k |-> "str", text |-> bytes]
StrBinary(bytes, more) == [k |-> "str", binary |-> bytes, more |-> more]
StrLit(lit) == [k |-> "str", lit |-> lit]
PyBool(b) == [k |-> "bool", b |-> b]
PyInt(i) == [k |-> "int", i |-> i]
\* struct.unpack("!d"): the float is kept as its 8 bytes.
PyFloat(bytes) == [k |-> "float", bits |-> bytes]
\* A list, run-length encoded: items is a sequence of [val, n], n >= 1 equal
\* consecutive elements val, no two neighbouring runs of the same val (so
\* equal lists are equal records).
PyList(items) == [k |-> "list", items |-> items]
\* A dict of map pairs, in insertion order: items is a sequence of [key, val].
PyMap(items) == [k |-> "map", items |-> items]
\* The dict read_struct returns: fields is a sequence of entries in insertion
\* order, each [key, type, field_id, at] with either value or error.
PyStruct(fields) == [k |-> "struct", fields |-> fields]
\* {"error": "max_depth_exceeded"}
PyDepthDict == [k |-> "dict", error |-> "max_depth_exceeded"]
PyNone == [k |-> "None"]

Min(a, b) == IF a < b THEN a ELSE b

\* ----------------------------------------------------------------- results
Ok(val, s) == [ok |-> TRUE, exc |-> "", msg |-> "", val |-> val, s |-> s]
Raise(exc, msg, s) == [ok |-> FALSE, exc |-> exc, msg |-> msg, val |-> PyNone, s |-> s]

\* ------------------------------------------------------------- byte cursor
\* struct.unpack of a signed big-endian integer of 1, 2 or 4 bytes (two's
\* complement: the first byte carries the sign)
RECURSIVE Signed(_)
Signed(bytes) ==
    IF Len(bytes) = 1 THEN (IF bytes[1] >= 128 THEN bytes[1] - 256 ELSE bytes[1])
    ELSE 256 * Signed(SubSeq(bytes, 1, Len(bytes) - 1)) + bytes[Len(bytes)]

\* struct.unpack("!q"): a value of 32-bit range is kept as that integer, any
\* other as its 8 bytes (one-to-one on the values, which do not fit here).
Signed64(bytes) ==
    IF SubSeq(bytes, 1, 4) = (IF bytes[5] >= 128 THEN <<255, 255, 255, 255>>
                              ELSE <<0, 0, 0, 0>>)
    THEN PyInt(Signed(SubSeq(bytes, 5, 8)))
    ELSE [k |-> "int", big |-> bytes]

\* self.stream.read(n), n >= 0: the bytes still there, at most n of them
StreamRead(s, n) ==
    [bytes |-> SubSeq(s.data, s.spos + 1, s.spos + Min(n, Len(s.data) - s.spos)),
     s |-> [s EXCEPT !.spos = s.spos + Min(n, Len(s.data) - s.spos)]]

EofMessage(s) == "Unexpected end of stream at position " \o ToString(s.pos)

\* A reader that counts the width it asked for even when the read is short
ReadFixedCountsShort(s, width) ==
    LET Then(r) ==
            IF Len(r.bytes) < width
            THEN Raise("EOFError", EofMessage(s), [r.s EXCEPT !.pos = s.pos + width])
            ELSE Ok(r.bytes, [r.s EXCEPT !.pos = s.pos + width])
    IN  Then(StreamRead(s, width))

\* The shape shared by read_byte, read_i16, read_i32, read_i64, read_double:
\* val is the bytes read.
ReadFixed(s, width) ==
    LET Then(r) ==
            IF Len(r.bytes) < width
            THEN Raise("EOFError", EofMessage(s), r.s)
            ELSE Ok(r.bytes, [r.s EXCEPT !.pos = s.pos + width])
    IN  Then(StreamRead(s, width))

\* struct.unpack("!b" / "!h" / "!i", data)[0]
Unpack(r) == IF r.ok THEN Ok(Signed(r.val), r.s) ELSE r

read_byte(s) == Unpack(ReadFixed(s, 1))

read_i16(s) == Unpack(ReadFixed(s, 2))

read_i32(s) == Unpack(ReadFixed(s, 4))

\* read_i64 returns the Python int itself, not a machine integer.
read_i64(s) ==
    LET Then(r) == IF r.ok THEN Ok(Signed64(r.val), r.s) ELSE r
    IN  Then(ReadFixed(s, 8))

read_double(s) ==
    LET Then(r) == IF r.ok THEN Ok(PyFloat(r.val), r.s) ELSE r
    IN  Then(ReadFixed(s, 8))

\* bytes.decode("utf-8") succeeds: the strict UTF-8 grammar
IsCont(b) == b >= 128 /\ b <= 191
RECURSIVE Utf8Valid(_)
Utf8Valid(b) ==
    LET n == Len(b)
        rest(k) == SubSeq(b, k + 1, n)
    IN  IF n = 0 THEN TRUE
        ELSE IF b[1] <= 127 THEN Utf8Valid(rest(1))
        ELSE IF b[1] >= 194 /\ b[1] <= 223
             THEN n >= 2 /\ IsCont(b[2]) /\ Utf8Valid(rest(2))
        ELSE IF b[1] >= 224 /\ b[1] <= 239
             THEN /\ n >= 3
                  /\ IsCont(b[2]) /\ IsCont(b[3])
                  /\ (b[1] = 224 => b[2] >= 160)
                  /\ (b[1] = 237 => b[2] <= 159)
                  /\ Utf8Valid(rest(3))
        ELSE IF b[1] >= 240 /\ b[1] <= 244
             THEN /\ n >= 4
                  /\ IsCont(b[2]) /\ IsCont(b[3]) /\ IsCont(b[4])
                  /\ (b[1] = 240 => b[2] >= 144)
                  /\ (b[1] = 244 => b[2] <= 143)
                  /\ Utf8Valid(rest(4))
        ELSE FALSE

\* data.decode("utf-8"), and the hex preview of the except branch
DecodeOrPreview(bytes) ==
    IF Utf8Valid(bytes) THEN StrText(bytes)
    ELSE StrBinary(SubSeq(bytes, 1, Min(Len(bytes), PreviewBytes)),
                   Len(bytes) > PreviewBytes)

read_string(s) ==
    LET Data(at, length, r) ==
            IF Len(r.bytes) < length
            THEN Raise("EOFError",
                       "Unexpected end of stream while reading string at position "
                           \o ToString(at.pos), r.s)
            ELSE Ok(DecodeOrPreview(r.bytes), [r.s EXCEPT !.pos = at.pos + length])
        Length(rl) ==
            IF ~rl.ok THEN rl
            ELSE IF rl.val < 0
            THEN Raise("ValueError", "Invalid string length: " \o ToString(rl.val), rl.s)
            ELSE IF rl.val > MaxStringLength
            THEN Raise("ValueError", "String length too large: " \o ToString(rl.val), rl.s)
            ELSE Data(rl.s, rl.val, StreamRead(rl.s, rl.val))
    IN  Length(read_i32(s))

\* ----------------------------------------------------------- message framer
HexDigit(d) ==
    CASE d = 0 -> "0" [] d = 1 -> "1" [] d = 2 -> "2" [] d = 3 -> "3"
      [] d = 4 -> "4" [] d = 5 -> "5" [] d = 6 -> "6" [] d = 7 -> "7"
      [] d = 8 -> "8" [] d = 9 -> "9" [] d = 10 -> "a" [] d = 11 -> "b"
      [] d = 12 -> "c" [] d = 13 -> "d" [] d = 14 -> "e" [] OTHER -> "f"

RECURSIVE HexDigits(_)
HexDigits(n) ==
    IF n < 16 THEN HexDigit(n) ELSE HexDigits(n \div 16) \o HexDigit(n % 16)

\* hex(n), n >= 0
Hex(n) == "0x" \o HexDigits(n)

\* size & 0xFFFF0000 and size & 0x000000FF of a negative 32-bit size: the
\* masks act on the two's complement.  The version is kept as its upper 16
\* bits, the lower 16 being zero: 0x80010000 is 0x8001 here.
VersionOf(size) == size \div 65536 + 65536
KindOf(size) == size % 256
VERSION_1 == 32769

Header(method_name, message_type, sequence_id) ==
    [method_name |-> method_name, message_type |-> message_type,
     sequence_id |-> sequence_id]

\* sequence_id = self.read_i32(); return method_name, message_type, sequence_id
ReadSequenceId(method_name, message_type, s) ==
    LET Then(rq) ==
            IF ~rq.ok THEN rq ELSE Ok(Header(method_name, message_type, rq.val), rq.s)
    IN  Then(read_i32(s))

read_message_begin(s) ==
    LET Strict(size, rn) ==
            IF ~rn.ok THEN rn ELSE ReadSequenceId(rn.val, KindOf(size), rn.s)
        Kind(method_name, rk) ==
            IF ~rk.ok THEN rk ELSE ReadSequenceId(method_name, rk.val, rk.s)
        NonStrict(at, size, rb) ==
            IF Len(rb.bytes) < size
            THEN Raise("EOFError",
                       "Unexpected end of stream while reading method name", rb.s)
            ELSE IF ~Utf8Valid(rb.bytes)
            THEN Raise("UnicodeDecodeError", "'utf-8' codec can't decode bytes",
                       [rb.s EXCEPT !.pos = at.pos + size])
            ELSE Kind(StrText(rb.bytes),
                      read_byte([rb.s EXCEPT !.pos = at.pos + size]))
        Size(rs) ==
            IF ~rs.ok THEN rs
            ELSE IF rs.val < 0
            THEN IF VersionOf(rs.val) # VERSION_1
                 THEN Raise("ValueError",
                            "Unsupported Thrift version: "
                                \o Hex(VersionOf(rs.val)) \o "0000", rs.s)
                 ELSE Strict(rs.val, read_string(rs.s))
            ELSE NonStrict(rs.s, rs.val, StreamRead(rs.s, rs.val))
    IN  Size(read_i32(s))

\* ------------------------------------------------------ history variables
\* A call with this max_depth was made.
Enter(s, max_depth) == [s EXCEPT !.mind = Min(s.mind, max_depth)]

\* One MAP, SET or LIST header was handled on the read or the skip path:
\* declared is its count, iters the loop iterations it started, at the
\* offset of the header, and the cursor is left at `end`; entries is the
\* len() of what was returned, or -1 when the call raised (0 for a skip that
\* returned).
LogColl(s, path, kind, declared, iters, at, entries) ==
    [s EXCEPT !.colls = Append(s.colls,
        [path |-> path, kind |-> kind, declared |-> declared,
         iters |-> iters, at |-> at, end |-> s.pos, entries |-> entries])]

\* The cursor: self.pos and the stream's position.
Mark(s) == [pos |-> s.pos, spos |-> s.spos]

\* --------------------------------------------------------------- skip path
RECURSIVE skip_field(_, _, _)
RECURSIVE _skip_struct(_, _)
RECURSIVE SkipLoop(_, _, _, _, _)

\* The body of one "for _ in range(size)" iteration of skip_field: the
\* element types are skipped in order, each with max_depth - 1.
RECURSIVE SkipEach(_, _, _)
SkipEach(s, types, depth) ==
    LET Then(r) == IF ~r.ok THEN r ELSE SkipEach(r.s, Tail(types), depth)
    IN  IF Len(types) = 0 THEN Ok(0, s)
        ELSE Then(skip_field(s, types[1], depth))

\* for _ in range(n): ...; val is the number of iterations started.  An
\* iteration that succeeds and leaves the cursor where it was is repeated
\* identically by every later one, so the remaining n - 1 are counted at once.
SkipLoop(s, types, n, depth, cnt) ==
    LET Then(r) ==
            IF ~r.ok THEN [r EXCEPT !.val = cnt + 1]
            ELSE IF Mark(s) = Mark(r.s) THEN Ok(cnt + n, r.s)
            ELSE SkipLoop(r.s, types, n - 1, depth, cnt + 1)
    IN  IF n <= 0 THEN Ok(cnt, s)
        ELSE Then(SkipEach(s, types, depth))

\* The MAP, SET and LIST branches of skip_field: the element type tags (two
\* for a MAP), the count, then the loop.
SkipCollection(s, kind, max_depth) ==
    LET Done(declared, rl) ==
            [rl EXCEPT !.s = LogColl(rl.s, "skip", kind, declared, rl.val, s.pos,
                                     IF rl.ok THEN 0 ELSE -1),
                       !.val = PyNone]
        Count(types, rn) ==
            IF ~rn.ok THEN rn
            ELSE Done(rn.val, SkipLoop(rn.s, types, rn.val, max_depth - 1, 0))
        ValType(key_type, r2) ==
            IF ~r2.ok THEN r2 ELSE Count(<<key_type, r2.val>>, read_i32(r2.s))
        ElemType(r1) ==
            IF ~r1.ok THEN r1
            ELSE IF kind = "MAP" THEN ValType(r1.val, read_byte(r1.s))
            ELSE Count(<<r1.val>>, read_i32(r1.s))
    IN  ElemType(read_byte(s))

\* A skip returns None.
Discard(r) == IF r.ok THEN Ok(PyNone, r.s) ELSE r

skip_field(s, field_type, max_depth) ==
    IF max_depth <= 0
    THEN Raise("ValueError", "Maximum recursion depth exceeded while skipping field",
               Enter(s, max_depth))
    ELSE CASE field_type \in {T_BOOL, T_BYTE} -> Discard(read_byte(Enter(s, max_depth)))
           [] field_type = T_I16 -> Discard(read_i16(Enter(s, max_depth)))
           [] field_type = T_I32 -> Discard(read_i32(Enter(s, max_depth)))
           [] field_type = T_I64 -> Discard(read_i64(Enter(s, max_depth)))
           [] field_type = T_DOUBLE -> Discard(read_double(Enter(s, max_depth)))
           [] field_type = T_STRING -> Discard(read_string(Enter(s, max_depth)))
           [] field_type = T_STRUCT -> _skip_struct(Enter(s, max_depth), max_depth - 1)
           [] field_type = T_MAP -> SkipCollection(Enter(s, max_depth), "MAP", max_depth)
           [] field_type = T_SET -> SkipCollection(Enter(s, max_depth), "SET", max_depth)
           [] field_type = T_LIST -> SkipCollection(Enter(s, max_depth), "LIST", max_depth)
           [] OTHER -> Ok(PyNone, Enter(s, max_depth))

_skip_struct(s, max_depth) ==
    LET Value(rs) == IF ~rs.ok THEN rs ELSE _skip_struct(rs.s, max_depth)
        Id(field_type, ri) ==
            IF ~ri.ok THEN ri ELSE Value(skip_field(ri.s, field_type, max_depth))
        Tag(rt) ==
            IF ~rt.ok THEN rt
            ELSE IF rt.val = T_STOP THEN Ok(PyNone, rt.s)
            ELSE Id(rt.val, read_i16(rt.s))
    IN  Tag(read_byte(s))

\* --------------------------------------------------------------- read path
\* The recursion of read_struct / read_field_value / _read_map / _read_set /
\* _read_list is run on an explicit call stack.  A machine M is
\*   s      the decoder
\*   stack  the active calls of read_struct, _read_map, _read_set and
\*          _read_list, outermost first, each a frame holding its locals
\*   ret    what the call just finished hands its caller: nothing yet, a
\*          returned value, or a raised exception
\* read_field_value itself never waits on a loop, so it has no frame: it
\* either returns at once or is the call of one of the four.
RetNone == [st |-> "none"]
RetValue(val) == [st |-> "value", val |-> val]
RetRaise(exc, msg) == [st |-> "raise", exc |-> exc, msg |-> msg]

Machine(s, frames, outcome) == [s |-> s, stack |-> frames, ret |-> outcome]
Top(M) == M.stack[Len(M.stack)]
Popped(M) == SubSeq(M.stack, 1, Len(M.stack) - 1)
SetTop(M, frame) == [M.stack EXCEPT ![Len(M.stack)] = frame]

\* The call returns val, or raises what the read r raised.
Returns(M, r, val) ==
    Machine(r.s, M.stack, IF r.ok THEN RetValue(val) ELSE RetRaise(r.exc, r.msg))

\* hash(key) raises TypeError for a dict or a list
Unhashable(v) == v.k \in {"struct", "dict", "map", "list"}
UnhashableName(v) == IF v.k = "list" THEN "list" ELSE "dict"

RECURSIVE DictIndex(_, _, _)
DictIndex(items, key, i) ==
    IF i > Len(items) THEN 0
    ELSE IF items[i].key = key THEN i
    ELSE DictIndex(items, key, i + 1)

\* An assignment that always adds an entry, as list.append would
DictSetAppends(items, key, item) == Append(items, item)

\* d[key] = item on an insertion-ordered dict: a key already there keeps its
\* place and takes the new item.
DictSet(items, key, item) ==
    LET At(i) == IF i = 0 THEN Append(items, item) ELSE [items EXCEPT ![i] = item]
    IN  At(DictIndex(items, key, 1))

\* result.append(val), n times over
ListAppend(items, val, n) ==
    IF Len(items) > 0 /\ items[Len(items)].val = val
    THEN [items EXCEPT ![Len(items)].n = @ + n]
    ELSE Append(items, [val |-> val, n |-> n])

\* len(list)
RECURSIVE ListLen(_)
ListLen(items) ==
    IF Len(items) = 0 THEN 0 ELSE items[1].n + ListLen(Tail(items))

\* A lookup that ignores the id and answers with the map's first name
NameOfFirst(field_name_map, field_id) ==
    IF Len(field_name_map) = 0 THEN "" ELSE field_name_map[1].name

\* self.field_name_map.get(field_id): the name, or "" for None
RECURSIVE NameOf(_, _)
NameOf(field_name_map, field_id) ==
    IF Len(field_name_map) = 0 THEN ""
    ELSE IF field_name_map[1].id = field_id THEN field_name_map[1].name
    ELSE NameOf(Tail(field_name_map), field_id)

\* The key made of the id whatever the map holds
FieldKeyOfId(field_name_map, field_id) == "field_" \o ToString(field_id)

\* field_key: the resolved name when there is one (and it is not empty)
FieldKey(field_name_map, field_id) ==
    LET Key(field_name) ==
            IF field_name # "" THEN field_name ELSE "field_" \o ToString(field_id)
    IN  Key(NameOf(field_name_map, field_id))

\* The entry with the field's key where its type name belongs
ValueEntryKeyAsType(key, type_name, value, field_id) ==
    [key |-> key, type |-> key, value |-> value, field_id |-> field_id]

\* The entry of a field that was read, stored as a failure without a text
ValueEntryAsError(key, type_name, value, field_id) ==
    [key |-> key, type |-> type_name, error |-> "", field_id |-> field_id]

ValueEntry(key, type_name, value, field_id) ==
    [key |-> key, type |-> type_name, value |-> value, field_id |-> field_id]

\* The failed field stored as if its error text were its value
ErrorEntryAsValue(key, type_name, error, field_id) ==
    [key |-> key, type |-> type_name, value |-> StrLit(error), field_id |-> field_id]

ErrorEntry(key, type_name, error, field_id) ==
    [key |-> key, type |-> type_name, error |-> error, field_id |-> field_id]

\* History: read_struct(max_depth) entered at offset `at` left its loop by
\* `exit` (stop, eof_tag, eof_id, skip_failed, parse_error, or depth for the
\* placeholder) with the cursor at `end`; level is the length of the call
\* stack with it on.
LogStruct(s, max_depth, at, exit, level) ==
    [s EXCEPT !.structs = Append(s.structs,
        [max_depth |-> max_depth, at |-> at, exit |-> exit, end |-> s.pos,
         level |-> level])]

\* History: a field's tag byte was read at offset `at`, then its id, by the
\* read_struct entered at offset `owner` with this max_depth.
LogRead(s, at, tag, id, max_depth, owner) ==
    [s EXCEPT !.reads = Append(s.reads,
        [at |-> at, tag |-> tag, id |-> id, max_depth |-> max_depth,
         owner |-> owner])]

\* History: read_field_value failed at offset failed_at for the field whose
\* value starts at `start`, and the skip_field that followed returned.
LogRecovery(s, field_type, start, failed_at, max_depth) ==
    [s EXCEPT !.recov = Append(s.recov,
        [type |-> field_type, start |-> start, failed_at |-> failed_at,
         after |-> s.pos, max_depth |-> max_depth])]

\* -- frames
StructFrame(max_depth, at) ==
    [fn |-> "read_struct", max_depth |-> max_depth, at |-> at, fields |-> << >>,
     field_type |-> 0, field_id |-> 0, start |-> 0]

\* fn is "_read_set" or "_read_list"; left counts the iterations to come,
\* iters those begun; mark is the cursor when the current one began.
ListFrame(fn, max_depth, at, elem_type, size) ==
    [fn |-> fn, max_depth |-> max_depth, at |-> at, elem_type |-> elem_type,
     size |-> size, left |-> size, result |-> << >>, iters |-> 0,
     mark |-> [pos |-> 0, spos |-> 0]]

\* awaiting is "key" or "value"; key holds the key once it is read.
MapFrame(max_depth, at, key_type, val_type, size) ==
    [fn |-> "_read_map", max_depth |-> max_depth, at |-> at, key_type |-> key_type,
     val_type |-> val_type, size |-> size, left |-> size, result |-> << >>,
     iters |-> 0, awaiting |-> "key", key |-> PyNone,
     mark |-> [pos |-> 0, spos |-> 0]]

CollKind(fn) == IF fn = "_read_map" THEN "MAP" ELSE IF fn = "_read_set" THEN "SET" ELSE "LIST"

\* A sanity check that turns away negative counts too
TooLargeOrNegative(size) == size > MaxCollection \/ size < 0

\* "if size > 10000:  # Sanity check"
TooLarge(size) == size > MaxCollection

\* read_struct without its "if max_depth <= 0" check
read_struct_unchecked(M, max_depth) ==
    Machine(Enter(M.s, max_depth),
            Append(M.stack, StructFrame(max_depth, M.s.pos)), RetNone)

\* -- calls: the machine after the call is made (a frame pushed, or the
\*    call already over and its outcome in ret)
read_struct(M, max_depth) ==
    IF max_depth <= 0
    THEN Machine(LogStruct(Enter(M.s, max_depth), max_depth, M.s.pos, "depth",
                           Len(M.stack) + 1),
                 M.stack, RetValue(PyDepthDict))
    ELSE Machine(Enter(M.s, max_depth),
                 Append(M.stack, StructFrame(max_depth, M.s.pos)), RetNone)

_read_map(M, max_depth) ==
    LET Size(key_type, val_type, rn) ==
            IF ~rn.ok THEN Returns(M, rn, PyNone)
            ELSE IF TooLarge(rn.val)
            THEN Machine(LogColl(rn.s, "read", "MAP", rn.val, 0, M.s.pos, 1), M.stack,
                         RetValue(PyMap(<<[key |-> StrLit("<large_map>"),
                                           val |-> StrLit(ToString(rn.val) \o " entries")]>>)))
            ELSE Machine(rn.s,
                         Append(M.stack,
                                MapFrame(max_depth, M.s.pos, key_type, val_type, rn.val)),
                         RetNone)
        ValType(key_type, r2) ==
            IF ~r2.ok THEN Returns(M, r2, PyNone)
            ELSE Size(key_type, r2.val, read_i32(r2.s))
        KeyType(r1) ==
            IF ~r1.ok THEN Returns(M, r1, PyNone)
            ELSE ValType(r1.val, read_byte(r1.s))
    IN  KeyType(read_byte(M.s))

\* _read_set and _read_list differ in the placeholder's text only.
ReadSetOrList(M, fn, max_depth) ==
    LET Size(elem_type, rn) ==
            IF ~rn.ok THEN Returns(M, rn, PyNone)
            ELSE IF TooLarge(rn.val)
            THEN Machine(LogColl(rn.s, "read", CollKind(fn), rn.val, 0, M.s.pos, 1), M.stack,
                         RetValue(PyList(<<[val |-> StrLit(
                             (IF fn = "_read_set" THEN "<large_set: " ELSE "<large_list: ")
                                 \o ToString(rn.val) \o " entries>"),
                                            n |-> 1]>>)))
            ELSE Machine(rn.s,
                         Append(M.stack, ListFrame(fn, max_depth, M.s.pos, elem_type, rn.val)),
                         RetNone)
        ElemType(r1) ==
            IF ~r1.ok THEN Returns(M, r1, PyNone)
            ELSE Size(r1.val, read_i32(r1.s))
    IN  ElemType(read_byte(M.s))

_read_set(M, max_depth) == ReadSetOrList(M, "_read_set", max_depth)

\* A _read_list that gives its elements the depth its caller had
_read_list_undiminished(M, max_depth) == ReadSetOrList(M, "_read_list", max_depth + 1)

_read_list(M, max_depth) == ReadSetOrList(M, "_read_list", max_depth)

\* The scalar branches of read_field_value: the value made of what was read.
Scalar(field_type, r) ==
    CASE field_type = T_BOOL -> PyBool(r.val # 0)
      [] field_type \in {T_BYTE, T_I16, T_I32} -> PyInt(r.val)
      [] OTHER -> r.val

ReadScalar(s, field_type) ==
    CASE field_type \in {T_BOOL, T_BYTE} -> read_byte(s)
      [] field_type = T_I16 -> read_i16(s)
      [] field_type = T_I32 -> read_i32(s)
      [] field_type = T_I64 -> read_i64(s)
      [] field_type = T_DOUBLE -> read_double(s)
      [] field_type = T_STRING -> read_string(s)

read_field_value(M, field_type, max_depth) ==
    LET Entered(N) ==
            CASE max_depth <= 0 ->
                    Machine(N.s, N.stack, RetValue(StrLit("<max_depth_exceeded>")))
              [] max_depth > 0 /\ field_type \in {T_BOOL, T_BYTE, T_I16, T_I32, T_I64,
                                                  T_DOUBLE, T_STRING} ->
                    LET Read(r) == Returns(N, r, Scalar(field_type, r))
                    IN  Read(ReadScalar(N.s, field_type))
              [] max_depth > 0 /\ field_type = T_STRUCT -> read_struct(N, max_depth - 1)
              [] max_depth > 0 /\ field_type = T_MAP -> _read_map(N, max_depth - 1)
              [] max_depth > 0 /\ field_type = T_SET -> _read_set(N, max_depth - 1)
              [] max_depth > 0 /\ field_type = T_LIST -> _read_list(N, max_depth - 1)
              [] OTHER ->
                    Machine(N.s, N.stack,
                            RetValue(StrLit("<unknown_type:" \o ToString(field_type) \o ">")))
    IN  Entered([M EXCEPT !.s = Enter(M.s, max_depth)])

\* -- read_struct
\* "break", then "return fields": the frame is left and the dict returned.
ReturnStruct(M, s, fields, exit) ==
    Machine(LogStruct(s, Top(M).max_depth, Top(M).at, exit, Len(M.stack)),
            Popped(M), RetValue(PyStruct(fields)))

\* The outer handlers of read_struct: "except EOFError: break", and
\* "except Exception as e: fields["_parse_error"] = str(e); break".
OuterExcept(M, r, exit) ==
    IF r.exc = "EOFError" THEN ReturnStruct(M, r.s, Top(M).fields, exit)
    ELSE ReturnStruct(M, r.s,
                      DictSet(Top(M).fields, "_parse_error",
                              [key |-> "_parse_error", text |-> r.msg]),
                      "parse_error")

\* The inner handler letting the skip's exception out of read_struct
SkipFailedRaises(M, rs, fields) ==
    Machine(rs.s, Popped(M), RetRaise(rs.exc, rs.msg))

\* "try: self.skip_field(field_type, max_depth) / except Exception: break"
\* when the skip raised what rs holds.
SkipFailed(M, rs, fields) == ReturnStruct(M, rs.s, fields, "skip_failed")

\* One pass of "while True", from the type tag to the call of
\* read_field_value (the top frame is a read_struct, nothing is pending).
ReadStructStep(M) ==
    LET Id(field_type, ri) ==
            IF ~ri.ok THEN OuterExcept(M, ri, "eof_id")
            ELSE read_field_value(
                     Machine(LogRead(ri.s, M.s.pos, field_type, ri.val,
                                     Top(M).max_depth, Top(M).at),
                             SetTop(M, [Top(M) EXCEPT !.field_type = field_type,
                                                      !.field_id = ri.val,
                                                      !.start = ri.s.pos]),
                             RetNone),
                     field_type, Top(M).max_depth)
        Tag(rt) ==
            IF ~rt.ok THEN OuterExcept(M, rt, "eof_tag")
            ELSE IF rt.val = T_STOP THEN ReturnStruct(M, rt.s, Top(M).fields, "stop")
            ELSE Id(rt.val, read_i16(rt.s))
    IN  Tag(read_byte(M.s))

\* The rest of the pass, once read_field_value has returned or raised: the
\* entry is stored; after a failure skip_field is tried from where the
\* cursor stands, and the loop goes on if it returns, breaks if it raises.
ReadStructResume(M) ==
    LET Key(f, type_name, field_key) ==
            IF M.ret.st = "value"
            THEN Machine(M.s,
                         SetTop(M, [f EXCEPT !.fields =
                             DictSet(f.fields, field_key,
                                     ValueEntry(field_key, type_name, M.ret.val, f.field_id))]),
                         RetNone)
            ELSE LET Skipped(fields, rs) ==
                         IF rs.ok
                         THEN Machine(LogRecovery(rs.s, f.field_type, f.start, M.s.pos,
                                                  f.max_depth),
                                      SetTop(M, [f EXCEPT !.fields = fields]), RetNone)
                         ELSE SkipFailed(M, rs, fields)
                 IN  Skipped(DictSet(f.fields, field_key,
                                     ErrorEntry(field_key, type_name, M.ret.msg, f.field_id)),
                             skip_field(M.s, f.field_type, f.max_depth))
    IN  Key(Top(M), TYPE_NAMES(Top(M).field_type),
            FieldKey(M.s.field_name_map, Top(M).field_id))

\* -- _read_set and _read_list
\* The head of "for _ in range(size)": the list is returned when no
\* iteration is left, else the element is read.
ReadListStep(M) ==
    LET Frame(f) ==
            IF f.left <= 0
            THEN Machine(LogColl(M.s, "read", CollKind(f.fn), f.size, f.iters, f.at,
                                 ListLen(f.result)),
                         Popped(M), RetValue(PyList(f.result)))
            ELSE read_field_value(
                     Machine(M.s,
                             SetTop(M, [f EXCEPT !.mark = Mark(M.s), !.iters = @ + 1]),
                             RetNone),
                     f.elem_type, f.max_depth)
    IN  Frame(Top(M))

\* result.append(...) once the element is read; an exception leaves the
\* call.  An iteration that left the cursor where it was is repeated
\* identically by every later one: the remaining ones are taken at once.
ReadListResume(M) ==
    LET Frame(f) ==
            IF M.ret.st = "raise"
            THEN Machine(LogColl(M.s, "read", CollKind(f.fn), f.size, f.iters, f.at, -1),
                         Popped(M), M.ret)
            ELSE IF Mark(M.s) = f.mark
            THEN Machine(M.s,
                         SetTop(M, [f EXCEPT !.result = ListAppend(f.result, M.ret.val, f.left),
                                             !.iters = @ + f.left - 1, !.left = 0]),
                         RetNone)
            ELSE Machine(M.s,
                         SetTop(M, [f EXCEPT !.result = ListAppend(f.result, M.ret.val, 1),
                                             !.left = @ - 1]),
                         RetNone)
    IN  Frame(Top(M))

\* -- _read_map
ReadMapStep(M) ==
    LET Frame(f) ==
            IF f.left <= 0
            THEN Machine(LogColl(M.s, "read", "MAP", f.size, f.iters, f.at,
                                 Len(f.result)),
                         Popped(M), RetValue(PyMap(f.result)))
            ELSE read_field_value(
                     Machine(M.s,
                             SetTop(M, [f EXCEPT !.mark = Mark(M.s), !.iters = @ + 1,
                                                 !.awaiting = "key"]),
                             RetNone),
                     f.key_type, f.max_depth)
    IN  Frame(Top(M))

\* The key is read: the value is read next.  The value is read:
\* result[key] = value, which raises TypeError for a key that cannot be
\* hashed.
ReadMapResume(M) ==
    LET Frame(f) ==
            CASE M.ret.st = "raise" ->
                    Machine(LogColl(M.s, "read", "MAP", f.size, f.iters, f.at, -1),
                            Popped(M), M.ret)
              [] M.ret.st = "value" /\ f.awaiting = "key" ->
                    read_field_value(
                        Machine(M.s,
                                SetTop(M, [f EXCEPT !.key = M.ret.val, !.awaiting = "value"]),
                                RetNone),
                        f.val_type, f.max_depth)
              [] M.ret.st = "value" /\ f.awaiting = "value" /\ Unhashable(f.key) ->
                    Machine(LogColl(M.s, "read", "MAP", f.size, f.iters, f.at, -1),
                            Popped(M),
                            RetRaise("TypeError",
                                     "unhashable type: '" \o UnhashableName(f.key) \o "'"))
              [] M.ret.st = "value" /\ f.awaiting = "value" /\ ~Unhashable(f.key) ->
                    Machine(M.s,
                            SetTop(M, [f EXCEPT
                                !.result = DictSet(f.result, f.key,
                                                   [key |-> f.key, val |-> M.ret.val]),
                                !.iters = IF Mark(M.s) = f.mark THEN @ + f.left - 1 ELSE @,
                                !.left = IF Mark(M.s) = f.mark THEN 0 ELSE @ - 1]),
                            RetNone)
    IN  Frame(Top(M))

\* -- one step of the machine
\* Whether the outermost call has returned or raised.
Finished(M) == Len(M.stack) = 0 /\ M.ret.st # "none"

\* What the machine is about to do.
AtField(M) == Len(M.stack) > 0 /\ M.ret.st = "none" /\ Top(M).fn = "read_struct"
AtElement(M) == Len(M.stack) > 0 /\ M.ret.st = "none" /\ Top(M).fn # "read_struct"
AtResume(M) == Len(M.stack) > 0 /\ M.ret.st # "none"

\* A call has returned or raised: its caller goes on.
ResumeCaller(M) ==
    CASE Top(M).fn = "read_struct" -> ReadStructResume(M)
      [] Top(M).fn = "_read_map" -> ReadMapResume(M)
      [] OTHER -> ReadListResume(M)

\* The head of a collection's loop.
ReadElementStep(M) ==
    IF Top(M).fn = "_read_map" THEN ReadMapStep(M) ELSE ReadListStep(M)

\* ----------------------------------------------------- field name resolver
\* The key of METHOD_TO_REQUEST_TYPE / METHOD_TO_RESPONSE_TYPE a str is, or ""
\* when it is none of them.  Both tables have the 14 keys of KNOWN_METHODS.
MethodKey(method_name) ==
    IF "text" \in DOMAIN method_name
       /\ \E m \in KNOWN_METHODS : m.text = method_name.text
    THEN (CHOOSE m \in KNOWN_METHODS : m.text = method_name.text).name
    ELSE ""

\* METHOD_TO_REQUEST_TYPE.get(method_name): every entry is "T<name>Req"
METHOD_TO_REQUEST_TYPE(method_name) ==
    IF MethodKey(method_name) = "" THEN ""
    ELSE "T" \o MethodKey(method_name) \o "Req"

\* METHOD_TO_RESPONSE_TYPE.get(method_name): every entry is "T<name>Resp"
METHOD_TO_RESPONSE_TYPE(method_name) ==
    IF MethodKey(method_name) = "" THEN ""
    ELSE "T" \o MethodKey(method_name) \o "Resp"

\* getattr(getattr(thrift_types, struct_type_name), 'thrift_spec') projected
\* to (field id, field name).  The generated types are not part of the
\* repository: these are the structs its tests and examples name; any other
\* struct type is taken to be absent from the registry.
ThriftSpec(struct_type_name) ==
    CASE struct_type_name = "TExecuteStatementReq" ->
           << [id |-> 1, name |-> "sessionHandle"], [id |-> 2, name |-> "statement"],
              [id |-> 3, name |-> "confOverlay"], [id |-> 7, name |-> "runAsync"],
              [id |-> 8, name |-> "queryTimeout"] >>
      [] struct_type_name = "TExecuteStatementResp" ->
           << [id |-> 1, name |-> "status"], [id |-> 2, name |-> "operationHandle"] >>
      [] struct_type_name = "TFetchResultsReq" ->
           << [id |-> 1, name |-> "operationHandle"], [id |-> 2, name |-> "orientation"],
              [id |-> 3, name |-> "maxRows"] >>
      [] OTHER -> << >>

\* "not method_name": the empty str
IsEmptyStr(v) == "text" \in DOMAIN v /\ v.text = << >>

\* The builder with the two tables taken one for the other
BuildFromOtherTable(available, method_name, message_type) ==
    IF ~available \/ IsEmptyStr(method_name) THEN << >>
    ELSE LET struct_type_name ==
                 IF message_type = MESSAGE_TYPE_CALL
                 THEN METHOD_TO_RESPONSE_TYPE(method_name)
                 ELSE IF message_type = MESSAGE_TYPE_REPLY
                 THEN METHOD_TO_REQUEST_TYPE(method_name)
                 ELSE ""
         IN  IF struct_type_name = "" THEN << >> ELSE ThriftSpec(struct_type_name)

_build_field_name_map(available, method_name, message_type) ==
    IF ~available \/ IsEmptyStr(method_name) THEN << >>
    ELSE LET struct_type_name ==
                 IF message_type = MESSAGE_TYPE_CALL
                 THEN METHOD_TO_REQUEST_TYPE(method_name)
                 ELSE IF message_type = MESSAGE_TYPE_REPLY
                 THEN METHOD_TO_RESPONSE_TYPE(method_name)
                 ELSE ""
         IN  IF struct_type_name = "" THEN << >> ELSE ThriftSpec(struct_type_name)

\* ---------------------------------------------------------- decode_message
\* ThriftDecoder.__init__
NewDecoder(bytes) ==
    [data |-> bytes, pos |-> 0, spos |-> 0, field_name_map |-> << >>,
     colls |-> << >>, structs |-> << >>, reads |-> << >>, recov |-> << >>,
     mind |-> DefaultMaxDepth]

NoDecoder == NewDecoder(<< >>)
NoHeader == Header(PyNone, 0, 0)
NoMachine == Machine(NoDecoder, << >>, RetNone)

\* The dict of the "except Exception as e" branch of decode_message
ErrorResult(s, exc, msg) ==
    [kind |-> "error", error |-> msg, error_type |-> exc,
     bytes_decoded |-> s.pos, total_bytes |-> Len(s.data)]

\* The dict decode_message returns; `keys` are the optional keys it set.
MessageResult(s, h, struct_fields, available) ==
    LET Result(resolved) ==
    [kind |-> "message",
     method |-> h.method_name,
     message_type |-> MESSAGE_TYPE_NAMES(h.message_type),
     sequence_id |-> h.sequence_id,
     fields |-> struct_fields,
     bytes_decoded |-> s.pos,
     total_bytes |-> Len(s.data),
     field_names_resolved |-> resolved,
     resolved_fields_count |-> IF resolved THEN Len(s.field_name_map) ELSE 0,
     struct_type |-> IF resolved /\ h.message_type = MESSAGE_TYPE_CALL THEN "Request"
                     ELSE IF resolved /\ h.message_type = MESSAGE_TYPE_REPLY THEN "Response"
                     ELSE "",
     keys |-> (IF MethodKey(h.method_name) # "" THEN {"protocol"} ELSE {})
              \cup (IF resolved THEN {"resolved_fields_count"} ELSE {})
              \cup (IF resolved /\ h.message_type \in {MESSAGE_TYPE_CALL, MESSAGE_TYPE_REPLY}
                    THEN {"struct_type"} ELSE {})]
    IN  Result(available /\ Len(s.field_name_map) > 0)

\* ------------------------------------------------------------------ inputs
\* The buffers decode_thrift_message is given: a header, then a body made of
\* a scenario prefix and up to MaxTail wire fragments; and, with small
\* bodies, every header variant, damaged headers and too-short buffers.
MaxTail == 2
\* How many struct levels beyond the depth ceiling the deepest chain nests.
MaxOverDepth == 1

\* struct.pack("!i", n)
I32Bytes(n) ==
    << (n \div 16777216) % 256, (n \div 65536) % 256, (n \div 256) % 256, n % 256 >>

StrictHeader(name, kind, seq) ==
    <<128, 1, 0, kind>> \o I32Bytes(Len(name)) \o name \o I32Bytes(seq)

LegacyHeader(name, kind, seq) ==
    I32Bytes(Len(name)) \o name \o <<kind>> \o I32Bytes(seq)

NameExecuteStatement == <<69, 120, 101, 99, 117, 116, 101, 83, 116, 97, 116, 101, 109, 101, 110, 116>>
NameFetchResults == <<70, 101, 116, 99, 104, 82, 101, 115, 117, 108, 116, 115>>
\* "Ping", a method of neither table; and a name that is not UTF-8
NamePing == <<80, 105, 110, 103>>
NameBinary == <<255, 254>>

MainHeader == StrictHeader(NameExecuteStatement, 1, 1)

Headers ==
    { StrictHeader(n, k, 7) : n \in {NameExecuteStatement, NameFetchResults, NamePing,
                                     NameBinary, << >>},
                              k \in {1, 2, 3, 4, 200} }
    \cup { LegacyHeader(n, k, 7) : n \in {NameExecuteStatement, NameFetchResults, NamePing,
                                          NameBinary, << >>},
                                   k \in {1, 2, 3, 200} }

Prefixes(b) == { SubSeq(b, 1, n) : n \in 0..Len(b) }

\* Damaged headers: cut short anywhere, a wrong version, a name length that
\* runs past the end or over the string ceiling.
BadBuffers ==
    Prefixes(StrictHeader(NamePing, 1, 7)) \cup Prefixes(LegacyHeader(NamePing, 1, 7))
    \cup { <<128, 2, 0, 1>> \o I32Bytes(0) \o I32Bytes(7) \o <<0>>,
           <<255, 255, 0, 1>>,
           <<128, 1, 0, 1>> \o I32Bytes(-1) \o I32Bytes(7) \o <<0>>,
           <<128, 1, 0, 1>> \o I32Bytes(MaxStringLength + 1) \o I32Bytes(7) \o <<0>>,
           I32Bytes(100) \o NamePing \o <<1>> \o I32Bytes(7) \o <<0>> }

\* Wire fragments: a STOP byte, a stray byte, whole fields (a BYTE, a LIST,
\* a MAP, a MAP of two pairs with the same key and a STRING that are well
\* formed, a LIST of MaxCollection VOIDs),
\* field headers whose value is left to what follows (a STRUCT, a SET of one
\* STRUCT), collection fields that declare more than MaxCollection elements
\* and carry none, an element type with such a count, and four 255s.
Fragments ==
    { <<0>>, <<7>>,
      <<3, 0, 2, 7>>,
      <<12, 0, 1>>,
      <<15, 0, 4, 3>> \o I32Bytes(2) \o <<1, 2>>,
      <<13, 0, 3, 3, 3>> \o I32Bytes(1) \o <<1, 2>>,
      <<13, 0, 3, 3, 3>> \o I32Bytes(2) \o <<1, 1, 1, 2>>,
      <<11, 0, 6>> \o I32Bytes(1) \o <<65>>,
      <<15, 0, 4, 1>> \o I32Bytes(MaxCollection),
      <<14, 0, 5, 12>> \o I32Bytes(1),
      <<15, 0, 4, 3>> \o I32Bytes(MaxCollection + 1),
      <<14, 0, 5, 1>> \o I32Bytes(MaxCollection + 1),
      <<13, 0, 3, 1, 1>> \o I32Bytes(MaxCollection + 1),
      <<1>> \o I32Bytes(MaxCollection + 1),
      <<255, 255, 255, 255>> }

RECURSIVE Tails(_)
Tails(n) ==
    IF n = 0 THEN { << >> }
    ELSE LET shorter == Tails(n - 1) IN
         shorter \cup { t \o f : t \in shorter, f \in Fragments }

RECURSIVE Nested(_)
\* n STRUCT fields of id 1, each opened inside the one before
Nested(n) == IF n = 0 THEN << >> ELSE <<12, 0, 1>> \o Nested(n - 1)

\* Scenario prefixes: nothing; a MAP whose one key is a struct (unhashable);
\* a STRING of length -1; a LIST whose one STRING element has length -1; a
\* LIST of MaxCollection + 1 BYTEs, every one there and zero; a STRING of
\* PreviewBytes + 1 bytes that are not UTF-8; and struct chains that end just
\* inside, at and beyond the depth ceiling.
ScenarioPrefixes ==
    { << >>,
      <<13, 0, 3, 12, 3>> \o I32Bytes(1) \o <<0, 5>>,
      <<11, 0, 2>> \o I32Bytes(-1),
      <<15, 0, 4, 11>> \o I32Bytes(1) \o I32Bytes(-1),
      <<15, 0, 4, 3>> \o I32Bytes(MaxCollection + 1) \o [i \in 1..(MaxCollection + 1) |-> 0],
      <<11, 0, 6>> \o I32Bytes(PreviewBytes + 1) \o [i \in 1..(PreviewBytes + 1) |-> 255] }
    \cup { Nested(DefaultMaxDepth - 1 + d) : d \in 0..(MaxOverDepth + 1) }

Bodies == { p \o t : p \in ScenarioPrefixes, t \in Tails(MaxTail) }

SmallBodies == { << >>, <<0>>, <<3, 0, 1, 7, 0>> }

\* The body of a FetchResults request as its test builds it: field 1 is a
\* struct whose field 1 is a struct whose field 1 is a STRING; a BYTE of id 9
\* follows the STRING.
NestedHandle ==
    <<12, 0, 1>> \o <<12, 0, 1>> \o <<11, 0, 1>> \o I32Bytes(1) \o <<65>>
        \o <<3, 0, 9, 7>> \o <<0>> \o <<0>> \o <<0>>

\* Bodies with a STRING field that declares more bytes than are left: after
\* a BYTE of another id, after a BYTE of its own id, inside a nested struct,
\* and one over the string ceiling that an empty string and a BYTE follow.
TruncatedStrings ==
    { <<3, 0, 2, 7>> \o <<11, 0, 6>> \o I32Bytes(5) \o <<65>>,
      <<3, 0, 6, 7>> \o <<11, 0, 6>> \o I32Bytes(5) \o <<65>>,
      <<12, 0, 1>> \o <<3, 0, 2, 7>> \o <<11, 0, 6>> \o I32Bytes(5) \o <<65>>,
      <<3, 0, 2, 7>> \o <<11, 0, 6>> \o I32Bytes(MaxStringLength + 1) \o I32Bytes(0)
          \o <<3, 0, 4, 9, 0>> }

\* Bodies with collections of negative count: a MAP, a SET and a LIST read
\* by read_field_value, then a LIST, a MAP and a SET whose first STRING has
\* length -1, so that skip_field takes the bytes that follow as a header, of
\* negative count too; a BYTE of id 2 ends each body.
NegativeRead ==
    <<13, 0, 3, 3, 3>> \o I32Bytes(-1)
        \o <<14, 0, 5, 3>> \o I32Bytes(-2)
        \o <<15, 0, 4, 11>> \o I32Bytes(-(MaxCollection + 1))

NegativeSkipped ==
    <<15, 0, 14, 11>> \o I32Bytes(1) \o I32Bytes(-1) \o <<3>> \o I32Bytes(-1)
        \o <<13, 0, 13, 11, 3>> \o I32Bytes(1) \o I32Bytes(-1) \o <<3, 3>> \o I32Bytes(-2)
        \o <<14, 0, 15, 11>> \o I32Bytes(1) \o I32Bytes(-1) \o <<12>> \o I32Bytes(-3)

NegativeCounts ==
    { NegativeRead \o <<3, 0, 2, 7, 0>>,
      NegativeSkipped \o <<3, 0, 2, 7, 0>>,
      NegativeRead \o NegativeSkipped \o <<3, 0, 2, 7, 0>> }

\* A body whose recovery skip runs out of depth: inside DefaultMaxDepth - 2
\* nested structs a LIST whose STRING element has length -1, then the bytes
\* skip_field takes as a LIST of one LIST of one BYTE.
DeepSkip ==
    Nested(DefaultMaxDepth - 2)
        \o <<15, 0, 4, 11>> \o I32Bytes(1) \o I32Bytes(-1)
        \o <<15>> \o I32Bytes(1) \o <<3>> \o I32Bytes(1) \o <<9, 0>>

Inputs ==
    { MainHeader \o b : b \in Bodies }
    \cup { MainHeader \o DeepSkip }
    \cup { MainHeader \o b : b \in NegativeCounts }
    \cup { h \o b : h \in Headers, b \in SmallBodies }
    \cup { MainHeader \o b : b \in TruncatedStrings }
    \cup { StrictHeader(NameFetchResults, k, 7) \o NestedHandle : k \in {1, 2} }
    \cup BadBuffers

\* ----------------------------------------------------------------- actions
\* dec, stack and ret are the machine of the decoder under way; twin is the
\* machine of a second decoder given the same buffer whose registry lookup
\* finds nothing (its field_name_map is empty).  The twin takes the same kind
\* of step whenever it stands where the decoder stands.
Init ==
    /\ data \in Inputs
    /\ thrift_types_available \in BOOLEAN
    /\ pc = "start"
    /\ dec = NoDecoder
    /\ stack = << >>
    /\ ret = RetNone
    /\ twin = NoMachine
    /\ hdr = NoHeader
    /\ result = PyNone

\* decode_thrift_message: "if not data or len(data) < 4: return None"
Reject ==
    /\ pc = "start"
    /\ Len(data) < 4
    /\ result' = [kind |-> "None"]
    /\ pc' = "done"
    /\ UNCHANGED <<data, thrift_types_available, dec, stack, ret, twin, hdr>>

\* decode_thrift_message: decoder = ThriftDecoder(data)
Construct ==
    /\ pc = "start"
    /\ Len(data) >= 4
    /\ dec' = NewDecoder(data)
    /\ pc' = "begin"
    /\ UNCHANGED <<data, thrift_types_available, stack, ret, twin, hdr, result>>

\* decode_message: the header is read, or the read raises and the except
\* branch returns the error dict.
HeaderRead(r) ==
    /\ dec' = r.s
    /\ \/ /\ r.ok
          /\ hdr' = r.val
          /\ pc' = "map"
          /\ UNCHANGED result
       \/ /\ ~r.ok
          /\ result' = ErrorResult(r.s, r.exc, r.msg)
          /\ pc' = "done"
          /\ UNCHANGED hdr

ReadMessageBegin ==
    /\ pc = "begin"
    /\ HeaderRead(read_message_begin(dec))
    /\ UNCHANGED <<data, thrift_types_available, stack, ret, twin>>

\* decode_message: self.field_name_map = self._build_field_name_map(...)
BuildFieldNameMap ==
    /\ pc = "map"
    /\ dec' = [dec EXCEPT !.field_name_map =
                  _build_field_name_map(thrift_types_available,
                                        hdr.method_name, hdr.message_type)]
    /\ twin' = Machine(dec, << >>, RetNone)
    /\ pc' = "body"
    /\ UNCHANGED <<data, thrift_types_available, stack, ret, hdr, result>>

\* The decoder's machine, and the twin's
Both == <<Machine(dec, stack, ret), twin>>

\* The machines become N[1] and N[2].
Becomes(N) ==
    /\ dec' = N[1].s
    /\ stack' = N[1].stack
    /\ ret' = N[1].ret
    /\ twin' = N[2]

\* decode_message: struct_fields = self.read_struct()
ReadBody ==
    /\ pc = "body"
    /\ Becomes([i \in 1..2 |-> read_struct(Both[i], DefaultMaxDepth)])
    /\ pc' = "struct"
    /\ UNCHANGED <<data, thrift_types_available, hdr, result>>

\* read_struct: the next field's tag and id are read and its value's read
\* begins, or the loop is left.
ReadField ==
    /\ pc = "struct"
    /\ AtField(Both[1])
    /\ Becomes([i \in 1..2 |->
                   IF AtField(Both[i]) THEN ReadStructStep(Both[i]) ELSE Both[i]])
    /\ UNCHANGED <<data, thrift_types_available, pc, hdr, result>>

\* _read_map, _read_set, _read_list: the next element's read begins, or the
\* collection is returned.
ReadElement ==
    /\ pc = "struct"
    /\ AtElement(Both[1])
    /\ Becomes([i \in 1..2 |->
                   IF AtElement(Both[i]) THEN ReadElementStep(Both[i]) ELSE Both[i]])
    /\ UNCHANGED <<data, thrift_types_available, pc, hdr, result>>

\* A call has returned or raised: its caller goes on.
Resume ==
    /\ pc = "struct"
    /\ AtResume(Both[1])
    /\ Becomes([i \in 1..2 |->
                   IF AtResume(Both[i]) THEN ResumeCaller(Both[i]) ELSE Both[i]])
    /\ UNCHANGED <<data, thrift_types_available, pc, hdr, result>>

\* decode_message: result = {...}; return result.  An exception leaving
\* read_struct would reach the except branch.
BuildResult ==
    /\ pc = "struct"
    /\ Finished(Both[1])
    /\ result' = IF ret.st = "value"
                 THEN MessageResult(dec, hdr, ret.val, thrift_types_available)
                 ELSE ErrorResult(dec, ret.exc, ret.msg)
    /\ pc' = "done"
    /\ UNCHANGED <<data, thrift_types_available, dec, stack, ret, twin, hdr>>

Next ==
    \/ Reject
    \/ Construct
    \/ ReadMessageBegin
    \/ BuildFieldNameMap
    \/ ReadBody
    \/ ReadField
    \/ ReadElement
    \/ Resume
    \/ BuildResult

Spec == Init /\ [][Next]_vars

\* -- two decodes of two buffers
\* The same actions with the twin given a second buffer: the first one with
\* the bytes carried by its field VariedId replaced by as many other bytes.
\* Both decoders have the same registry.  The second buffer has the first
\* one's header, which is read once for both.
VariedId == 6

\* The field VariedId of each pair: its type tag and what follows its id in
\* the first buffer and in the second (texts; PreviewBytes + 1 bytes that
\* are not UTF-8, differing in the last; BOOLs; BYTEs)
VariedFields ==
    { [tag |-> T_STRING, a |-> I32Bytes(1) \o <<65>>, b |-> I32Bytes(1) \o <<66>>],
      [tag |-> T_STRING,
       a |-> I32Bytes(PreviewBytes + 1) \o [i \in 1..(PreviewBytes + 1) |-> 255],
       b |-> I32Bytes(PreviewBytes + 1)
                 \o [i \in 1..(PreviewBytes + 1) |-> IF i > PreviewBytes THEN 254 ELSE 255]],
      [tag |-> T_BOOL, a |-> <<0>>, b |-> <<1>>],
      [tag |-> T_BYTE, a |-> <<7>>, b |-> <<8>>] }

\* A BYTE field before the varied one, a LIST and the STOP after it
PairOf(h, f) ==
    LET Buffer(payload) ==
            h \o <<3, 0, 2, 7>> \o <<f.tag, 0, VariedId>> \o payload
              \o <<15, 0, 4, 3>> \o I32Bytes(2) \o <<1, 2>> \o <<0>>
    IN  [a |-> Buffer(f.a), b |-> Buffer(f.b)]

PairCases ==
    { PairOf(h, f) : h \in {MainHeader, LegacyHeader(NamePing, 2, 7)}, f \in VariedFields }

PairInputs == { c.a : c \in PairCases } \cup { <<255, 255, 0, 1>> }

InitPair ==
    /\ data \in PairInputs
    /\ thrift_types_available \in BOOLEAN
    /\ pc = "start"
    /\ dec = NoDecoder
    /\ stack = << >>
    /\ ret = RetNone
    /\ twin = NoMachine
    /\ hdr = NoHeader
    /\ result = PyNone

\* decode_message in both decoders: the field name map is built
BuildFieldNameMapPair ==
    /\ pc = "map"
    /\ dec' = [dec EXCEPT !.field_name_map =
                  _build_field_name_map(thrift_types_available,
                                        hdr.method_name, hdr.message_type)]
    /\ \E c \in PairCases :
          /\ c.a = data
          /\ twin' = Machine([dec EXCEPT !.data = c.b,
                                          !.field_name_map =
                                  _build_field_name_map(thrift_types_available,
                                                        hdr.method_name, hdr.message_type)],
                             << >>, RetNone)
    /\ pc' = "body"
    /\ UNCHANGED <<data, thrift_types_available, stack, ret, hdr, result>>

NextPair ==
    \/ Construct
    \/ ReadMessageBegin
    \/ BuildFieldNameMapPair
    \/ ReadBody
    \/ ReadField
    \/ ReadElement
    \/ Resume
    \/ BuildResult

SpecPair == InitPair /\ [][NextPair]_vars

\* --------------------------------------------------- the byte cursor alone
\* A decoder is built on a buffer and its readers are called one after the
\* other, in any order, each from where the calls before it left the cursor.
\* result names the call made last and holds the cursor it started from.
CursorInputs ==
    Prefixes(<<1, 2, 3, 4, 5, 6, 7, 8, 9>>)
    \cup { I32Bytes(3) \o <<65, 66, 67, 7>>,
           I32Bytes(3) \o <<65, 66>>,
           I32Bytes(2) \o <<255, 254>>,
           I32Bytes(0),
           I32Bytes(-1) \o <<1>>,
           I32Bytes(MaxStringLength) \o <<1, 2>>,
           I32Bytes(MaxStringLength + 1) \o <<1, 2>> }

InitCursor ==
    /\ data \in CursorInputs
    /\ thrift_types_available = FALSE
    /\ pc = "cursor"
    /\ dec = NewDecoder(data)
    /\ stack = << >>
    /\ ret = RetNone
    /\ twin = NoMachine
    /\ hdr = NoHeader
    /\ result = PyNone

\* One call of a reader: r is what it returned or raised.
Called(op, r) ==
    /\ pc = "cursor"
    /\ dec' = r.s
    /\ ret' = IF r.ok THEN RetValue(r.val) ELSE RetRaise(r.exc, r.msg)
    /\ result' = [kind |-> "read", op |-> op, before |-> Mark(dec)]
    /\ UNCHANGED <<data, thrift_types_available, pc, stack, twin, hdr>>

CallReadByte == Called("read_byte", read_byte(dec))

CallReadI16 == Called("read_i16", read_i16(dec))

CallReadI32 == Called("read_i32", read_i32(dec))

CallReadI64 == Called("read_i64", read_i64(dec))

CallReadDouble == Called("read_double", read_double(dec))

CallReadString == Called("read_string", read_string(dec))

NextCursor ==
    \/ CallReadByte
    \/ CallReadI16
    \/ CallReadI32
    \/ CallReadI64
    \/ CallReadDouble
    \/ CallReadString

SpecCursor == InitCursor /\ [][NextCursor]_vars

\* ------------------------------------------------- format_thrift_message
\* Python text is a TLA+ string.  The printable ASCII characters, code points
\* 32 to 126 in order: the character of code point c is the (c - 31)th (a
\* space holds the place of the grave accent, 96, which a TLA+ string cannot
\* contain).
Printable == " !\"#$%&'()*+,-./0123456789:;<=>?@ABCDEFGHIJKLMNOPQRSTUVWXYZ[\\]^_ abcdefghijklmnopqrstuvwxyz{|}~"

\* chr(c) for a printable ASCII code point; text with any other character
\* is outside what is formatted here.
Chr(c) == CASE c \in 32..126 /\ c # 96 -> SubSeq(Printable, c - 31, c - 31)

\* ord(ch) for a printable ASCII character
Ord(ch) == 31 + CHOOSE i \in 1..Len(Printable) : SubSeq(Printable, i, i) = ch

\* bytes.decode("utf-8") of ASCII bytes
RECURSIVE Chars(_)
Chars(bytes) ==
    IF Len(bytes) = 0 THEN ""
    ELSE IF Len(bytes) = 1 THEN Chr(bytes[1])
    ELSE Chars(SubSeq(bytes, 1, Len(bytes) \div 2))
             \o Chars(SubSeq(bytes, Len(bytes) \div 2 + 1, Len(bytes)))

\* bytes.hex()
RECURSIVE HexOf(_)
HexOf(bytes) ==
    IF Len(bytes) = 0 THEN ""
    ELSE HexOf(SubSeq(bytes, 1, Len(bytes) - 1))
             \o HexDigit(bytes[Len(bytes)] \div 16) \o HexDigit(bytes[Len(bytes)] % 16)

\* s * n
RECURSIVE Repeat(_, _)
Repeat(s, n) ==
    IF n <= 0 THEN ""
    ELSE LET Twice(half) == IF n % 2 = 1 THEN half \o half \o s ELSE half \o half
         IN  Twice(Repeat(s, n \div 2))

\* The text of a str value
TextOf(v) ==
    CASE "lit" \in DOMAIN v -> v.lit
      [] "binary" \in DOMAIN v ->
             "<binary:" \o HexOf(v.binary) \o (IF v.more THEN "..." ELSE "") \o ">"
      [] "text" \in DOMAIN v -> Chars(v.text)

Contains(s, ch) == \E i \in 1..Len(s) : SubSeq(s, i, i) = ch

\* The body of repr(s): the quote in use and the backslash are escaped.
RECURSIVE Escaped(_, _)
Escaped(s, quote) ==
    IF Len(s) = 0 THEN ""
    ELSE LET One(ch) == IF ch = quote \/ ch = "\\" THEN "\\" \o ch ELSE ch
         IN  IF Len(s) = 1 THEN One(s)
             ELSE Escaped(SubSeq(s, 1, Len(s) \div 2), quote)
                      \o Escaped(SubSeq(s, Len(s) \div 2 + 1, Len(s)), quote)

\* repr(s) of a str: double quotes when s has a single quote and no double one
ReprText(s) ==
    IF Contains(s, "'") /\ ~Contains(s, "\"")
    THEN "\"" \o Escaped(s, "\"") \o "\""
    ELSE "'" \o Escaped(s, "'") \o "'"

\* repr(v) of a decoded value (ints of 32-bit range; no float).  ReprFrom
\* is the text from the i-th entry of a dict on, its closing brace included:
\* entries of a dict from read_struct are dicts themselves (or the text
\* under "_parse_error"), those of a map are key: value.
RECURSIVE Repr(_)
RECURSIVE ReprRuns(_)
RECURSIVE ReprFrom(_, _)
Repr(v) ==
    CASE v.k = "struct" -> "{" \o ReprFrom(v.fields, 1)
      [] v.k = "map" -> "{" \o ReprFrom(v.items, 1)
      [] v.k = "list" -> "[" \o ReprRuns(v.items)
      [] v.k = "str" -> ReprText(TextOf(v))
      [] v.k = "int" /\ "i" \in DOMAIN v -> ToString(v.i)
      [] v.k = "bool" -> IF v.b THEN "True" ELSE "False"
      [] v.k = "None" -> "None"
      [] v.k = "dict" -> "{'error': " \o ReprText(v.error) \o "}"

\* What stands before the value in the i-th entry, and after it
BeforeValue(e, i) ==
    (IF i > 1 THEN ", " ELSE "")
        \o (IF "val" \in DOMAIN e THEN Repr(e.key) \o ": "
            ELSE ReprText(e.key) \o ": "
                     \o (IF "text" \in DOMAIN e THEN ReprText(e.text)
                         ELSE "{'type': " \o ReprText(e.type)
                                  \o (IF "value" \in DOMAIN e THEN ", 'value': "
                                      ELSE ", 'error': " \o ReprText(e.error))))

AfterValue(e) ==
    IF "type" \in DOMAIN e THEN ", 'field_id': " \o ToString(e.field_id) \o "}" ELSE ""

ReprFrom(entries, i) ==
    IF i > Len(entries) THEN "}"
    ELSE IF "val" \in DOMAIN entries[i]
    THEN BeforeValue(entries[i], i) \o (Repr(entries[i].val) \o ReprFrom(entries, i + 1))
    ELSE IF "value" \in DOMAIN entries[i]
    THEN BeforeValue(entries[i], i)
             \o (Repr(entries[i].value) \o (AfterValue(entries[i]) \o ReprFrom(entries, i + 1)))
    ELSE BeforeValue(entries[i], i) \o (AfterValue(entries[i]) \o ReprFrom(entries, i + 1))

\* The elements of a list, run by run, and the closing bracket
ReprRuns(items) ==
    IF Len(items) = 0 THEN "]"
    ELSE LET Run(one) ==
                 one \o Repeat(", " \o one, items[1].n - 1)
                     \o (IF Len(items) = 1 THEN "" ELSE ", ")
         IN  Run(Repr(items[1].val)) \o ReprRuns(Tail(items))

\* str(v): a str is its own text, anything else its repr
Str(v) == IF v.k = "str" THEN TextOf(v) ELSE Repr(v)

\* a < b on str: by code point, a proper prefix first
RECURSIVE StrLess(_, _)
StrLess(a, b) ==
    IF Len(b) = 0 THEN FALSE
    ELSE IF Len(a) = 0 THEN TRUE
    ELSE IF SubSeq(a, 1, 1) = SubSeq(b, 1, 1)
         THEN StrLess(SubSeq(a, 2, Len(a)), SubSeq(b, 2, Len(b)))
    ELSE Ord(SubSeq(a, 1, 1)) < Ord(SubSeq(b, 1, 1))

\* sorted(fields.items()): the keys of a dict differ, so the order is that of
\* the keys.
RECURSIVE SortedItems(_)
SortedItems(fields) ==
    IF Len(fields) = 0 THEN << >>
    ELSE LET least == CHOOSE i \in DOMAIN fields :
                          \A j \in DOMAIN fields : j # i => StrLess(fields[i].key, fields[j].key)
             Without(i) == SubSeq(fields, 1, i - 1) \o SubSeq(fields, i + 1, Len(fields))
         IN  <<fields[least]>> \o SortedItems(Without(least))

\* A formatter that clips only texts of two characters over the limit
ClippedLate(value_str, max_field_length) ==
    IF Len(value_str) > max_field_length + 1
    THEN SubSeq(value_str, 1, max_field_length) \o "..."
    ELSE value_str

\* "value_str = str(...); if len(value_str) > max_field_length: value_str =
\* value_str[:max_field_length] + '...'"
Clipped(value_str, max_field_length) ==
    IF Len(value_str) > max_field_length
    THEN SubSeq(value_str, 1, max_field_length) \o "..."
    ELSE value_str

\* The line of one item of fields: an entry with a type shows its id, its
\* type and its value or error; anything else is shown as it is.
FieldLine(prefix, e, max_field_length) ==
    IF "type" \in DOMAIN e
    THEN prefix \o "  " \o e.key
             \o (IF e.field_id # 0 THEN " [id=" \o ToString(e.field_id) \o "]" ELSE "")
             \o " (" \o e.type \o "): "
             \o Clipped(IF "value" \in DOMAIN e THEN Str(e.value) ELSE e.error,
                        max_field_length)
    ELSE prefix \o "  " \o e.key \o ": " \o Clipped(e.text, max_field_length)

RECURSIVE Joined(_)
\* "\n".join(lines)
Joined(lines) ==
    IF Len(lines) = 0 THEN ""
    ELSE IF Len(lines) = 1 THEN lines[1]
    ELSE lines[1] \o "\n" \o Joined(Tail(lines))

\* The lines format_thrift_message collects (indent is 0), or the one text
\* it returns at once.
FormatLines(decoded, max_field_length, available) ==
    IF decoded.kind = "None" THEN << "<empty message>" >>
    ELSE IF decoded.kind = "error" THEN << "<decode error: " \o decoded.error \o ">" >>
    ELSE LET fields == decoded.fields.fields
             sorted == SortedItems(fields)
         IN  << "Method: " \o TextOf(decoded.method),
                "Type: " \o decoded.message_type,
                "Bytes: " \o ToString(decoded.bytes_decoded) \o "/"
                    \o ToString(decoded.total_bytes) >>
             \o (IF "protocol" \in decoded.keys
                 THEN << "Protocol: HiveServer2/Databricks" >> ELSE << >>)
             \o (IF decoded.field_names_resolved
                 THEN << "Field Names: Resolved ("
                             \o ToString(decoded.resolved_fields_count) \o " mappings)" >>
                 ELSE IF ~available
                 THEN << "Field Names: Generic (thrift types not available)" >>
                 ELSE << "Field Names: Generic (no mapping for this method)" >>)
             \o (IF Len(fields) = 0 THEN << >>
                 ELSE << "Fields (" \o ToString(Len(fields)) \o "):" >>
                          \o [n \in DOMAIN sorted |->
                                 FieldLine("", sorted[n], max_field_length)])

\* sorted() compares the (key, value) tuples: two items of the same key
\* would be ordered by their values, and dicts have no order.
Sortable(fields) ==
    \A i, j \in DOMAIN fields : i # j => fields[i].key # fields[j].key

\* format_thrift_message(decoded, max_field_length): the text it returns,
\* with the lines it was joined from, or the exception that leaves it.
format_thrift_message(decoded, max_field_length, available) ==
    IF decoded.kind = "message" /\ ~Sortable(decoded.fields.fields)
    THEN RetRaise("TypeError",
                  "'<' not supported between instances of 'dict' and 'dict'")
    ELSE LET Text(lines) ==
                 RetValue([k |-> "text", max_field_length |-> max_field_length,
                           lines |-> lines, text |-> Joined(lines)])
         IN  Text(FormatLines(decoded, max_field_length, available))

\* The default of max_field_length, and a short one a caller may pass
DefaultFieldLength == 200
ShortFieldLength == 5

\* A run of n bytes "A"
Letters(n) == [i \in 1..n |-> 65]

\* Buffers whose decode is then formatted: too short a buffer, a bad
\* version, legacy framing; and, after valid headers, bodies with a field of
\* an unknown tag, a truncated STRING, a MAP with a struct as key, a binary
\* STRING, two LISTs of BYTEs whose texts have DefaultFieldLength characters
\* and one more, two STRINGs of ShortFieldLength letters and one more, a
\* LIST, a MAP, a LIST over MaxCollection, nested structs, and structs nested
\* down to the depth ceiling and beyond.
FormatBodies ==
    { <<0>>,
      <<3, 0, 2, 7>> \o <<7, 0, 5>> \o <<2, 0, 9, 1>> \o <<0>>,
      <<13, 0, 3, 12, 3>> \o I32Bytes(1) \o <<0, 5>> \o <<0>>,
      <<11, 0, 6>> \o I32Bytes(PreviewBytes + 1) \o [i \in 1..(PreviewBytes + 1) |-> 255]
          \o <<0>>,
      <<15, 0, 6, 3>> \o I32Bytes(66) \o [i \in 1..64 |-> 0] \o <<10, 10>>
          \o <<15, 0, 7, 3>> \o I32Bytes(67) \o [i \in 1..67 |-> 0] \o <<0>>,
      <<11, 0, 6>> \o I32Bytes(ShortFieldLength) \o Letters(ShortFieldLength)
          \o <<11, 0, 7>> \o I32Bytes(ShortFieldLength + 1)
          \o Letters(ShortFieldLength + 1) \o <<0>>,
      <<15, 0, 4, 3>> \o I32Bytes(2) \o <<1, 2>>
          \o <<13, 0, 3, 3, 11>> \o I32Bytes(1) \o <<1>> \o I32Bytes(1) \o <<39>> \o <<0>>,
      <<15, 0, 4, 3>> \o I32Bytes(MaxCollection + 1) \o <<0>>,
      NestedHandle }
    \cup TruncatedStrings
    \cup { Nested(DefaultMaxDepth - 1 + d) : d \in 0..1 }

FormatInputs ==
    { <<128, 1, 0>>, <<255, 255, 0, 1>> }
    \cup { MainHeader \o b : b \in FormatBodies }
    \cup { LegacyHeader(NamePing, 2, 7) \o <<3, 0, 1, 7, 0>>,
           StrictHeader(NameBinary, 3, 7) \o <<3, 0, 1, 7, 0>>,
           StrictHeader(NameFetchResults, 1, 7) \o NestedHandle }

InitFormat ==
    /\ data \in FormatInputs
    /\ thrift_types_available \in BOOLEAN
    /\ pc = "start"
    /\ dec = NoDecoder
    /\ stack = << >>
    /\ ret = RetNone
    /\ twin = NoMachine
    /\ hdr = NoHeader
    /\ result = PyNone

\* format_thrift_message(decode_thrift_message(data)[, max_field_length])
FormatMessage ==
    /\ pc = "done"
    /\ \E max_field_length \in {DefaultFieldLength, ShortFieldLength} :
           ret' = format_thrift_message(result, max_field_length, thrift_types_available)
    /\ pc' = "formatted"
    /\ UNCHANGED <<data, thrift_types_available, dec, stack, twin, hdr, result>>

NextFormat ==
    \/ Reject
    \/ Construct
    \/ ReadMessageBegin
    \/ BuildFieldNameMap
    \/ ReadBody
    \/ ReadField
    \/ ReadElement
    \/ Resume
    \/ BuildResult
    \/ FormatMessage

SpecFormat == InitFormat /\ [][NextFormat]_vars

\* ------------------------------------------------------------ wire grammar
\* Where a value of the Thrift binary protocol ends: the offset just past the
\* value of this type that starts at offset p of the buffer b, or -1 when b
\* holds no whole value there (it is cut short, or a length or count is
\* negative).  A type tag that is none of the protocol's has no bytes.
FixedWidth(type) ==
    CASE type \in {T_BOOL, T_BYTE} -> 1
      [] type = T_I16 -> 2
      [] type = T_I32 -> 4
      [] type \in {T_I64, T_DOUBLE} -> 8
      [] OTHER -> 0

IsFixed(type) == type \notin {T_STRING, T_STRUCT, T_MAP, T_SET, T_LIST}

TagAt(b, p) == Signed(<<b[p + 1]>>)
I32At(b, p) == Signed(SubSeq(b, p + 1, p + 4))

RECURSIVE WireEnd(_, _, _)
RECURSIVE WireEndStruct(_, _)
RECURSIVE WireEndEach(_, _, _, _)

\* n times the element types in turn, from p
WireEndEach(b, p, types, n) ==
    LET One(e1) == IF Len(types) = 1 THEN e1 ELSE WireEnd(b, e1, types[2])
        Next1(e) == WireEndEach(b, e, types, n - 1)
    IN  IF p < 0 \/ n = 0 THEN p
        ELSE Next1(One(WireEnd(b, p, types[1])))

WireEndElems(b, p, types, n) ==
    LET Width(w) ==
            IF w = 0 THEN p
            ELSE IF n > Len(b) THEN -1
            ELSE IF p + n * w <= Len(b) THEN p + n * w ELSE -1
    IN  IF n < 0 THEN -1
        ELSE IF \A i \in DOMAIN types : IsFixed(types[i])
        THEN Width(FixedWidth(types[1])
                   + (IF Len(types) = 2 THEN FixedWidth(types[2]) ELSE 0))
        ELSE IF n > Len(b) THEN -1
        ELSE WireEndEach(b, p, types, n)

WireEndStruct(b, p) ==
    LET After(e) == IF e < 0 THEN -1 ELSE WireEndStruct(b, e)
    IN  IF p + 1 > Len(b) THEN -1
        ELSE IF b[p + 1] = T_STOP THEN p + 1
        ELSE IF p + 3 > Len(b) THEN -1
        ELSE After(WireEnd(b, p + 3, TagAt(b, p)))

WireEnd(b, p, type) ==
    CASE p < 0 -> -1
      [] p >= 0 /\ IsFixed(type) ->
            IF p + FixedWidth(type) <= Len(b) THEN p + FixedWidth(type) ELSE -1
      [] p >= 0 /\ type = T_STRING ->
            IF p + 4 <= Len(b) /\ I32At(b, p) >= 0 /\ I32At(b, p) <= Len(b) - p - 4
            THEN p + 4 + I32At(b, p) ELSE -1
      [] p >= 0 /\ type = T_STRUCT -> WireEndStruct(b, p)
      [] p >= 0 /\ type = T_MAP ->
            IF p + 6 <= Len(b)
            THEN WireEndElems(b, p + 6, <<TagAt(b, p), TagAt(b, p + 1)>>, I32At(b, p + 2))
            ELSE -1
      [] p >= 0 /\ type \in {T_SET, T_LIST} ->
            IF p + 5 <= Len(b)
            THEN WireEndElems(b, p + 5, <<TagAt(b, p)>>, I32At(b, p + 1))
            ELSE -1

\* ------------------------------------------------------------------ claims
Events(log) == { log[i] : i \in DOMAIN log }

\* The field headers the struct that read r0 went on to read after it.
LaterReads(r0) ==
    { r \in Events(dec.reads) :
        r.owner = r0.owner /\ r.max_depth = r0.max_depth /\ r.at > r0.at }

\* The read_struct call that read r0 has returned.
OwnerReturned(r0) ==
    \E sd \in Events(dec.structs) : sd.at = r0.owner /\ sd.max_depth = r0.max_depth

\* A field header (a tag other than STOP, and an id) stands at offset e.
SiblingAt(e) == e + 3 <= Len(data) /\ data[e + 1] # T_STOP

\* After the field read as r0, whose value is whole on the wire and ends at
\* offset e (-1: the buffer ends inside it, and nothing is said), its struct
\* records the siblings that follow the value and nothing else: what it
\* reads next lies at or after e, and the sibling at e, if one is there, is
\* read.
ResumesAt(r0, e) ==
    e >= 0 =>
        /\ \A r \in LaterReads(r0) : r.at >= e
        /\ (SiblingAt(e) /\ OwnerReturned(r0)) => \E r \in LaterReads(r0) : r.at = e

\* The entries of a struct value
EntriesOf(v) == Events(v.fields)

\* A struct value records an error: a field's error entry or "_parse_error"
RecordsError(v) ==
    \E e \in EntriesOf(v) : "error" \in DOMAIN e \/ "text" \in DOMAIN e

\* A value with every struct's keys erased, at every nesting level
RECURSIVE Anon(_)
AnonEntry(e) ==
    IF "value" \in DOMAIN e THEN [e EXCEPT !.key = "", !.value = Anon(@)]
    ELSE [e EXCEPT !.key = ""]

Anon(v) ==
    CASE v.k = "struct" -> [v EXCEPT !.fields = [i \in DOMAIN @ |-> AnonEntry(@[i])]]
      [] v.k = "list" ->
            [v EXCEPT !.items = [i \in DOMAIN @ |-> [@[i] EXCEPT !.val = Anon(@)]]]
      [] v.k = "map" ->
            [v EXCEPT !.items = [i \in DOMAIN @ |->
                                    [key |-> Anon(@[i].key), val |-> Anon(@[i].val)]]]
      [] OTHER -> v

\* C1: once decode_message has returned for a buffer of at least 4 bytes, a
\* header that read_message_begin read gives a message result whatever
\* followed it, and an error result is there only when the header's read
\* failed.
HeaderReadGivesMessage ==
    (pc = "done" /\ Len(data) >= 4) =>
        /\ hdr # NoHeader => result.kind = "message"
        /\ result.kind = "error" => hdr = NoHeader

\* C1 witness: a message result whose top-level struct broke off because the
\* recovery skip raised.
MessageDespiteFailedSkip ==
    /\ pc = "done"
    /\ result.kind = "message"
    /\ \E sd \in Events(dec.structs) : sd.exit = "skip_failed" /\ sd.level = 1

\* C2: whenever read_field_value failed for a field of read_struct and the
\* skip_field that followed returned, the cursor stands at the first byte
\* after that field's value on the wire.
RecoveryLandsAfterValue ==
    \A v \in Events(dec.recov) :
        LET End(e) == e >= 0 => v.after = e
        IN  End(WireEnd(data, v.start, v.type))

\* C3: when the top-level struct ends because the buffer ran out at a type
\* tag or a field id, the result records an error.
TruncationIsRecorded ==
    (/\ pc = "done"
     /\ result.kind = "message"
     /\ dec.structs[Len(dec.structs)].exit \in {"eof_tag", "eof_id"})
        => RecordsError(result.fields)

\* C4: after a MAP, SET or LIST field that declares more than 10000
\* elements, the struct records exactly the siblings that follow the field's
\* value on the wire.
OversizeKeepsSiblings ==
    \A r0 \in Events(dec.reads) :
        (/\ r0.tag \in {T_MAP, T_SET, T_LIST}
         /\ \E c \in Events(dec.colls) :
                c.path = "read" /\ c.at = r0.at + 3 /\ c.declared > MaxCollection)
            => ResumesAt(r0, WireEnd(data, r0.at + 3, r0.tag))

\* The j-th element of a Python list held as runs of equal values
RECURSIVE ListItem(_, _)
ListItem(items, j) ==
    IF j <= items[1].n THEN items[1].val ELSE ListItem(Tail(items), j - items[1].n)

\* C5: a MAP, SET or LIST read with a count over 10000 gives a placeholder
\* of one entry and starts no element read; with a count from 0 to 10000 it
\* starts no more than that many, and exactly that many when it returns (a
\* SET or LIST then has that many elements); the elements gathered so far by
\* a SET or LIST of BYTEs are the bytes that follow its header, in wire order.
CollectionCountHonoured ==
    /\ \A c \in Events(dec.colls) :
        c.path = "read" =>
            /\ c.declared > MaxCollection => (c.iters = 0 /\ c.entries = 1)
            /\ c.declared \in 0..MaxCollection =>
                  /\ c.iters <= c.declared
                  /\ c.entries >= 0 => c.iters = c.declared
                  /\ (c.entries >= 0 /\ c.kind # "MAP") => c.entries = c.declared
    /\ \A i \in DOMAIN stack :
        stack[i].fn # "read_struct" =>
            (stack[i].size <= MaxCollection /\ stack[i].iters <= stack[i].size)
    /\ \A i \in DOMAIN stack :
        (stack[i].fn \in {"_read_set", "_read_list"} /\ stack[i].elem_type = T_BYTE) =>
            \A j \in 1..ListLen(stack[i].result) :
                ListItem(stack[i].result, j) = PyInt(Signed(<<data[stack[i].at + 5 + j]>>))

\* C6: after a STRUCT field replaced by the depth placeholder, the enclosing
\* struct records exactly the siblings that follow the over-deep struct on
\* the wire.
OverDeepKeepsSiblings ==
    \A r0 \in Events(dec.reads) :
        (/\ r0.tag = T_STRUCT
         /\ \E sd \in Events(dec.structs) : sd.exit = "depth" /\ sd.at = r0.at + 3)
            => ResumesAt(r0, WireEnd(data, r0.at + 3, T_STRUCT))

\* C7: the chain of active calls never goes deeper than the ceiling: the
\* i-th call from the outside has i - 1 levels of depth spent and none has
\* less than zero left, the read_struct calls among them are no more than
\* the ceiling and each has depth left, no call at all is made with a
\* negative max_depth, and a read_struct with no depth left, and only such
\* a one, ends as the placeholder, reading no field.
DepthCeilingHolds ==
    /\ \A i \in DOMAIN stack :
           stack[i].max_depth >= 0 /\ stack[i].max_depth <= DefaultMaxDepth - i + 1
    /\ Cardinality({ i \in DOMAIN stack : stack[i].fn = "read_struct" }) <= DefaultMaxDepth
    /\ \A i \in DOMAIN stack : stack[i].fn = "read_struct" => stack[i].max_depth >= 1
    /\ dec.mind >= 0
    /\ \A sd \in Events(dec.structs) : (sd.max_depth <= 0) <=> (sd.exit = "depth")
    /\ \A r \in Events(dec.reads) : r.max_depth >= 1

\* C7 witness: with as many calls active as the ceiling allows, the struct
\* one level further in has just been returned as the placeholder.
PlaceholderAtCeiling ==
    /\ Len(stack) = DefaultMaxDepth
    /\ ret = RetValue(PyDepthDict)
    /\ \E sd \in Events(dec.structs) : sd.exit = "depth" /\ sd.max_depth = 0

\* C8: with a registry or without, on the read path and on the skip path,
\* no collection header starts more than 10000 iterations and no call is
\* made or active with less than zero depth left.
BoundsHoldOnBothPaths ==
    \A M \in {Both[1], Both[2]} :
        /\ \A c \in Events(M.s.colls) : c.iters <= MaxCollection
        /\ M.s.mind >= 0
        /\ \A i \in DOMAIN M.stack : M.stack[i].max_depth >= 0

\* C9: the decode with the registry and the decode of the same bytes with
\* none give the same method, message kind, sequence id, byte counts and
\* the same entries once keys are set aside.
SameButForKeys ==
    (pc = "done" /\ result.kind = "message") =>
        /\ Finished(twin) /\ twin.ret.st = "value"
        /\ LET Same(other) ==
                   /\ other.method = result.method
                   /\ other.message_type = result.message_type
                   /\ other.sequence_id = result.sequence_id
                   /\ other.bytes_decoded = result.bytes_decoded
                   /\ other.total_bytes = result.total_bytes
                   /\ ("protocol" \in other.keys) <=> ("protocol" \in result.keys)
                   /\ ~other.field_names_resolved
                   /\ Anon(other.fields) = Anon(result.fields)
           IN  Same(MessageResult(twin.s, hdr, twin.ret.val, FALSE))

\* C9 witness: a result with resolved names in which field 2 is keyed
\* "statement", and "field_2" in the decode without a registry.
ResolvedAndUnresolved ==
    /\ pc = "done"
    /\ result.kind = "message"
    /\ result.field_names_resolved
    /\ \E e \in EntriesOf(result.fields) : e.key = "statement" /\ e.field_id = 2
    /\ \E e \in EntriesOf(twin.ret.val) : e.key = "field_2" /\ e.field_id = 2

\* The entry e of the struct entered at `owner` with this max_depth carries
\* the id of a field header that struct read and the type name of its tag,
\* under the key the name map gives that id.
FromWire(e, owner, max_depth) ==
    \/ e.key = "_parse_error"
    \/ \E r \in Events(dec.reads) :
          /\ r.owner = owner /\ r.max_depth = max_depth
          /\ e.field_id = r.id
          /\ e.type = TYPE_NAMES(r.tag)
          /\ e.key = FieldKey(dec.field_name_map, r.id)

\* C10: every entry of every read_struct under way, and of the one that has
\* just returned, carries the type name of the tag and the field id read
\* from the wire; and the decoder reads the same field headers at the same
\* offsets as the one without a name map.
EntriesCarryWireTagAndId ==
    /\ \A i \in DOMAIN stack :
          stack[i].fn = "read_struct" =>
              \A e \in Events(stack[i].fields) :
                  FromWire(e, stack[i].at, stack[i].max_depth)
    /\ (ret.st = "value" /\ ret.val.k = "struct") =>
          \A e \in EntriesOf(ret.val) :
              FromWire(e, dec.structs[Len(dec.structs)].at,
                       dec.structs[Len(dec.structs)].max_depth)
    /\ (pc = "struct" \/ (pc = "done" /\ result.kind = "message")) =>
          (dec.reads = twin.s.reads /\ dec.pos = twin.s.pos /\ dec.spos = twin.s.spos)

\* C10 witness: an entry stored under a resolved name for a field whose
\* header was read from the wire.
ResolvedEntryStored ==
    /\ Len(stack) > 0
    /\ stack[1].fn = "read_struct"
    /\ \E e \in Events(stack[1].fields) :
          e.key = "confOverlay" /\ e.field_id = 3 /\ e.type = "MAP"

\* ------------------------------------------------------- claims C11 - C20
\* A read_struct has just returned its mapping (not the depth placeholder).
StructReturned == ret.st = "value" /\ ret.val.k = "struct"

\* The record of the read_struct call that has just returned
LastStruct == dec.structs[Len(dec.structs)]

\* The field headers read by the read_struct call that has just returned,
\* in the order in which it read them.
ReadsOfLast ==
    LET Mine(r) == r.owner = LastStruct.at /\ r.max_depth = LastStruct.max_depth
    IN  SelectSeq(dec.reads, Mine)

\* The key under which the field read as r is stored
KeyOfRead(r) == FieldKey(dec.field_name_map, r.id)

\* The reads that are the first, and the last, of their key in R
FirstOfKey(R) == { i \in DOMAIN R : \A j \in 1..(i - 1) : KeyOfRead(R[j]) # KeyOfRead(R[i]) }
LastOfKey(R, i) ==
    CHOOSE l \in DOMAIN R :
        /\ KeyOfRead(R[l]) = KeyOfRead(R[i])
        /\ \A j \in (l + 1)..Len(R) : KeyOfRead(R[j]) # KeyOfRead(R[i])

\* The entry e is the one stored for the field read as r: its id and type
\* name, and for a BYTE that was read its value, are those on the wire.
EntryOfRead(e, r) ==
    /\ e.field_id = r.id
    /\ e.type = TYPE_NAMES(r.tag)
    /\ (r.tag = T_BYTE /\ "value" \in DOMAIN e /\ r.max_depth >= 1) =>
           e.value = PyInt(Signed(<<data[r.at + 4]>>))

\* C11 (as amended): the mapping read_struct returns has one entry per
\* distinct field key read, the entries stand in the order in which their
\* keys were first read, and each holds the last field read under its key.
EntriesFollowFirstReads ==
    StructReturned =>
        LET Check(R, fields) ==
                /\ Len(fields) = Cardinality(FirstOfKey(R))
                /\ \A i \in FirstOfKey(R) :
                       LET Nth(n) ==
                               /\ fields[n].key = KeyOfRead(R[i])
                               /\ EntryOfRead(fields[n], R[LastOfKey(R, i)])
                       IN  Nth(Cardinality({ j \in FirstOfKey(R) : j <= i }))
        IN  Check(ReadsOfLast, ret.val.fields)

\* C11 witness: a struct returned after reading two fields of the same id
\* holds one entry.
RepeatedKeyReturned ==
    /\ StructReturned
    /\ Len(ReadsOfLast) = 2
    /\ ReadsOfLast[1].id = ReadsOfLast[2].id
    /\ Len(ret.val.fields) = 1

\* C11 (as stated): the mapping read_struct returns has one entry per field
\* read, and its entries stand in the wire order of the fields.
OneEntryPerFieldRead ==
    StructReturned =>
        LET Check(R, fields) ==
                /\ Len(fields) = Len(R)
                /\ \A i \in DOMAIN R : EntryOfRead(fields[i], R[i])
        IN  Check(ReadsOfLast, ret.val.fields)

\* C12: a MAP that is returned holds as many pairs as its count (one per
\* pair read, a repeated key included), and storing a pair never raises (a
\* key that is a struct, map, set or list included).
MapKeepsEveryPair ==
    /\ \A c \in Events(dec.colls) :
           (c.path = "read" /\ c.kind = "MAP" /\ c.declared <= MaxCollection
                /\ c.entries >= 0)
               => c.entries = c.declared
    /\ ret.st = "raise" => ret.exc # "TypeError"

\* -- the reference encoder (TBinaryProtocol, strict framing) on messages
\* whose fields are BYTEs, STRINGs, STRUCTs and LISTs of BYTEs.  A field is
\* [id, type, value] with the type by name; a BYTE's value is the integer, a
\* STRING's its bytes, a LIST's the sequence of its integers, a STRUCT's the
\* sequence of its fields.
RECURSIVE EncodeFields(_)
EncodeByte(i) == <<(i + 256) % 256>>

EncodeI16(i) == <<((i + 65536) \div 256) % 256, (i + 65536) % 256>>

EncodeValue(type, value) ==
    CASE type = "BYTE" -> EncodeByte(value)
      [] type = "STRING" -> I32Bytes(Len(value)) \o value
      [] type = "LIST" ->
            <<T_BYTE>> \o I32Bytes(Len(value)) \o [i \in DOMAIN value |-> (value[i] + 256) % 256]
      [] type = "STRUCT" -> EncodeFields(value)

TagOf(type) ==
    CASE type = "BYTE" -> T_BYTE [] type = "STRING" -> T_STRING
      [] type = "LIST" -> T_LIST [] type = "STRUCT" -> T_STRUCT

\* writeFieldBegin, the value, ... writeFieldStop
EncodeFields(fields) ==
    IF Len(fields) = 0 THEN <<T_STOP>>
    ELSE <<TagOf(fields[1].type)>> \o EncodeI16(fields[1].id)
             \o EncodeValue(fields[1].type, fields[1].value)
             \o EncodeFields(Tail(fields))

\* writeMessageBegin(name, kind, seq), then the struct
EncodeMessage(m) == StrictHeader(m.method, m.kind, m.seq) \o EncodeFields(m.fields)

Field(id, type, value) == [id |-> id, type |-> type, value |-> value]

\* The encoder's inputs tried: no field, a BYTE, a text, a LIST of two BYTEs,
\* a LIST of MaxCollection + 1 BYTEs, and PreviewBytes + 1 bytes that are not
\* text.
Messages ==
    { [method |-> NameExecuteStatement, kind |-> 1, seq |-> 1, fields |-> f] :
        f \in { << >>,
                 <<Field(2, "BYTE", 7)>>,
                 <<Field(6, "STRING", <<65>>)>>,
                 <<Field(4, "LIST", <<1, 2>>)>>,
                 <<Field(4, "LIST", [i \in 1..(MaxCollection + 1) |-> 0])>>,
                 <<Field(6, "STRING", [i \in 1..(PreviewBytes + 1) |-> 255])>> } }

\* Each message with the bytes the encoder writes for it
Encoded == { [m |-> m, bytes |-> EncodeMessage(m)] : m \in Messages }

\* The encoder's value re-derived from a decoded value: the integer, the
\* bytes of the text (of the preview, for bytes that were not text), the
\* elements of the list one by one, the fields of the struct.
RECURSIVE Triples(_)
Expand(items) ==
    [j \in 1..ListLen(items) |->
        LET Elem(val) == IF val.k = "int" THEN val.i ELSE val
        IN  Elem(ListItem(items, j))]

Rederive(v) ==
    CASE v.k = "int" -> v.i
      [] v.k = "str" /\ "text" \in DOMAIN v -> v.text
      [] v.k = "str" /\ "binary" \in DOMAIN v -> v.binary
      [] v.k = "list" -> Expand(v.items)
      [] v.k = "struct" -> Triples(v.fields)
      [] OTHER -> v

Triples(entries) ==
    [i \in DOMAIN entries |->
        Field(entries[i].field_id, entries[i].type,
              IF "value" \in DOMAIN entries[i] THEN Rederive(entries[i].value)
              ELSE [error |-> entries[i].error])]

\* C13: for a message written by the reference encoder with strict framing,
\* the result gives the encoder's method name, kind and sequence id, the
\* triples re-derived from its fields are the encoder's fields, and
\* bytes_decoded is total_bytes.
DecodeRecoversEncoded ==
    pc = "done" =>
        \A e \in Encoded :
            data = e.bytes =>
                /\ result.kind = "message"
                /\ result.method = StrText(e.m.method)
                /\ result.message_type = MESSAGE_TYPE_NAMES(e.m.kind)
                /\ result.sequence_id = e.m.seq
                /\ Triples(result.fields.fields) = e.m.fields
                /\ result.bytes_decoded = result.total_bytes

\* The value, or the error, an entry carries
Carried(e) == IF "value" \in DOMAIN e THEN e.value ELSE [error |-> e.error]

\* C14: of two messages that differ only in the bytes one field carries, the
\* results have different values at that field, equal entries at every
\* other field and the same envelope.
DiffersExactlyAtField ==
    (pc = "done" /\ result.kind = "message") =>
        /\ twin.s.data # data
        /\ Finished(twin) /\ twin.ret.st = "value"
        /\ LET Same(other) ==
                   /\ other.method = result.method
                   /\ other.message_type = result.message_type
                   /\ other.sequence_id = result.sequence_id
                   /\ other.bytes_decoded = result.bytes_decoded
                   /\ other.total_bytes = result.total_bytes
                   /\ other.keys = result.keys
                   /\ other.field_names_resolved = result.field_names_resolved
                   /\ Len(other.fields.fields) = Len(result.fields.fields)
                   /\ \A i \in DOMAIN result.fields.fields :
                          LET Entry(e, o) ==
                                  IF e.field_id = VariedId
                                  THEN /\ o.field_id = VariedId
                                       /\ Carried(o) # Carried(e)
                                  ELSE o = e
                          IN  Entry(result.fields.fields[i], other.fields.fields[i])
           IN  Same(MessageResult(twin.s, hdr, twin.ret.val, thrift_types_available))

\* The legacy framing of the envelope whose strict framing begins `data`:
\* the same name bytes, kind byte and sequence id, and the same body.
LegacyFraming(body_at) ==
    LegacyHeader(SubSeq(data, 9, body_at - 4), data[4], hdr.sequence_id)
        \o SubSeq(data, body_at + 1, Len(data))

\* C15: once read_message_begin has read a strict-framed header, it reads
\* the legacy-framed header of the same envelope to the same method name,
\* kind and sequence id, and leaves the cursor at the first byte of the
\* body as well.
FramingsAgree ==
    (pc = "map" /\ data[1] >= 128) =>
        LET Same(legacy, other) ==
                /\ other.ok
                /\ other.val = hdr
                /\ Len(legacy) - other.s.pos = Len(data) - dec.pos
        IN  Same(LegacyFraming(dec.pos),
                 read_message_begin(NewDecoder(LegacyFraming(dec.pos))))

\* ---------------------------------------------------------------- C16
\* The header of the wire grammar: the leading int32 `b` starts with, the
\* length of the method name it declares, and the offset of the byte after
\* the sequence id.
LeadingInt(b) == Signed(SubSeq(b, 1, 4))

InvalidVersion(b) ==
    /\ Len(b) >= 4
    /\ LeadingInt(b) < 0
    /\ <<b[1], b[2]>> # <<128, 1>>

NameLength(b) ==
    IF LeadingInt(b) >= 0 THEN LeadingInt(b) ELSE Signed(SubSeq(b, 5, 8))

EndsInsideHeader(b) ==
    \/ Len(b) \in 1..3
    \/ /\ Len(b) >= 4
       /\ LeadingInt(b) >= 0
       /\ Len(b) < 4 + NameLength(b) + 1 + 4
    \/ /\ Len(b) >= 4
       /\ LeadingInt(b) < 0
       /\ ~InvalidVersion(b)
       /\ \/ Len(b) < 8
          \/ NameLength(b) >= 0 /\ Len(b) < 8 + NameLength(b) + 4

\* C16: when the decode of a buffer whose header has an invalid version
\* marker, or which ends inside the header, is over, the result is an error
\* result with an error text, bytes_decoded and total_bytes, and no struct
\* was read.
HeaderFailureIsReported ==
    (pc = "done" /\ (InvalidVersion(data) \/ EndsInsideHeader(data))) =>
        /\ result.kind = "error"
        /\ result.error # ""
        /\ result.bytes_decoded \in 0..Len(data)
        /\ result.total_bytes = Len(data)
        /\ dec.structs = << >>
        /\ dec.reads = << >>

\* ---------------------------------------------------------------- C17
\* read_field_value has just raised for a STRING field of the read_struct on
\* top of the stack, and the length the field declares is more than the
\* bytes that follow it in the buffer.
StringOverruns ==
    /\ pc = "struct"
    /\ stack # << >>
    /\ ret.st = "raise"
    /\ Top(Both[1]).fn = "read_struct"
    /\ Top(Both[1]).field_type = T_STRING
    /\ Top(Both[1]).start + 4 <= Len(data)
    /\ Signed(SubSeq(data, Top(Both[1]).start + 1, Top(Both[1]).start + 4))
           > Len(data) - (Top(Both[1]).start + 4)

\* The struct's entries once the failed field is handled: those of its frame
\* if the loop goes on, those it returns if the loop was left.
FieldsAfterStore ==
    IF Len(stack') = Len(stack) THEN stack'[Len(stack')].fields ELSE ret'.val.fields

\* The failed field is stored under its key with its type name, its id and
\* a text; read_struct does not raise, and returns its entries when the skip
\* failed.
OverrunStored ==
    LET f == Top(Both[1])
        key == FieldKey(dec.field_name_map, f.field_id)
    IN  /\ Len(stack') = Len(stack) \/ Len(stack') = Len(stack) - 1
        /\ Len(stack') = Len(stack) - 1 => (ret'.st = "value" /\ ret'.val.k = "struct")
        /\ Len(stack') = Len(stack) => ret'.st = "none"
        /\ \E i \in DOMAIN FieldsAfterStore :
               /\ FieldsAfterStore[i].key = key
               /\ FieldsAfterStore[i].type = "STRING"
               /\ FieldsAfterStore[i].field_id = f.field_id
               /\ "error" \in DOMAIN FieldsAfterStore[i]
               /\ FieldsAfterStore[i].error # ""

\* C17 (as amended): a STRING field that declares more bytes than are left
\* is stored as an entry with its type name, its id and an error text; the
\* entries stored before it under other keys stay as they were, one stored
\* under its own key is replaced by it; and when the skip fails read_struct
\* returns its entries; the decode ends with a message result.
OverrunKeepsOtherKeys ==
    /\ [][StringOverruns =>
            /\ OverrunStored
            /\ \A i \in DOMAIN Top(Both[1]).fields :
                   Top(Both[1]).fields[i].key
                       # FieldKey(dec.field_name_map, Top(Both[1]).field_id)
                       => FieldsAfterStore[i] = Top(Both[1]).fields[i]
            /\ Len(FieldsAfterStore) \in
                   {Len(Top(Both[1]).fields), Len(Top(Both[1]).fields) + 1}]_vars
    /\ [](pc = "done" /\ result.kind = "error" => dec.reads = << >>)

\* C17 (as stated): every entry stored before the failed STRING field stays
\* as it was.
OverrunKeepsEarlierEntries ==
    [][StringOverruns =>
           /\ OverrunStored
           /\ \A i \in DOMAIN Top(Both[1]).fields :
                  FieldsAfterStore[i] = Top(Both[1]).fields[i]]_vars

\* C17 witness: the decode is over with a message result whose struct left
\* its loop at a failed skip and stored a STRING entry with an error after an
\* entry of another key.
OverrunAfterSibling ==
    /\ pc = "done"
    /\ result.kind = "message"
    /\ LastStruct.exit = "skip_failed"
    /\ Len(result.fields.fields) = 2
    /\ "value" \in DOMAIN result.fields.fields[1]
    /\ result.fields.fields[2].type = "STRING"
    /\ "error" \in DOMAIN result.fields.fields[2]

\* ---------------------------------------------------------------- C18
\* The number of bytes of the header `b` starts with
HeaderLength(b) ==
    IF LeadingInt(b) >= 0 THEN 4 + NameLength(b) + 1 + 4 ELSE 8 + NameLength(b) + 4

\* b is a whole header with a valid version marker, then one STOP byte.
HeaderThenStop(b) ==
    /\ Len(b) >= 4
    /\ ~InvalidVersion(b)
    /\ ~EndsInsideHeader(b)
    /\ NameLength(b) \in 0..MaxStringLength
    /\ Len(b) = HeaderLength(b) + 1
    /\ b[Len(b)] = T_STOP

\* C18: a read_struct within the depth ceiling whose body starts with the
\* STOP byte leaves its loop at that byte with the cursor one byte on and
\* returns an empty mapping; the decode of a valid header followed by one
\* STOP byte gives a message with no field and bytes_decoded = total_bytes.
EmptyStructTakesOneByte ==
    /\ \A sd \in Events(dec.structs) :
           (sd.max_depth >= 1 /\ sd.at < Len(data) /\ data[sd.at + 1] = T_STOP)
               => sd.exit = "stop" /\ sd.end = sd.at + 1
    /\ (/\ StructReturned
        /\ LastStruct.at < Len(data)
        /\ data[LastStruct.at + 1] = T_STOP) => ret.val.fields = << >>
    /\ (pc = "done" /\ HeaderThenStop(data)) =>
           /\ result.kind = "message"
           /\ result.fields = PyStruct(<< >>)
           /\ result.bytes_decoded = result.total_bytes

\* ---------------------------------------------------------------- C19
\* The header was read and the name map built from it.
MapBuilt == pc \in {"body", "struct"} \/ (pc = "done" /\ result.kind = "message")

\* The method name of the header is a key of the two method tables.
InTables == \E m \in KNOWN_METHODS : hdr.method_name = StrText(m.text)

\* C19: the name map is empty when there is no registry, when the method is
\* in neither table and when the kind is neither Call nor Reply; for a Call
\* it is the registry's entry for the request table's struct, for a Reply
\* that for the response table's struct; and field_names_resolved is true
\* exactly when there is a registry and the map is not empty.
NameMapFollowsKind ==
    MapBuilt =>
        /\ (\/ ~thrift_types_available
            \/ ~InTables
            \/ hdr.message_type \notin {MESSAGE_TYPE_CALL, MESSAGE_TYPE_REPLY})
               => dec.field_name_map = << >>
        /\ (thrift_types_available /\ InTables /\ hdr.message_type = MESSAGE_TYPE_CALL)
               => dec.field_name_map = ThriftSpec(METHOD_TO_REQUEST_TYPE(hdr.method_name))
        /\ (thrift_types_available /\ InTables /\ hdr.message_type = MESSAGE_TYPE_REPLY)
               => dec.field_name_map = ThriftSpec(METHOD_TO_RESPONSE_TYPE(hdr.method_name))
        /\ pc = "done" =>
               (result.field_names_resolved
                    <=> (thrift_types_available /\ dec.field_name_map # << >>))

\* C19 witness: a Reply of ExecuteStatement decoded with the registry: the
\* map is that of the response struct and the result says names are resolved.
ReplyUsesResponseTable ==
    /\ pc = "done"
    /\ result.kind = "message"
    /\ thrift_types_available
    /\ hdr.message_type = MESSAGE_TYPE_REPLY
    /\ NameOf(dec.field_name_map, 2) = "operationHandle"
    /\ result.field_names_resolved

\* ---------------------------------------------------------------- C20
\* The name the map built for the message gives to field id i, or field_<i>
TopLevelKey(i) ==
    IF \E j \in DOMAIN dec.field_name_map : dec.field_name_map[j].id = i
    THEN dec.field_name_map[CHOOSE j \in DOMAIN dec.field_name_map :
                                dec.field_name_map[j].id = i].name
    ELSE "field_" \o ToString(i)

\* Every entry of a field is stored under the key of its id.
KeyedByTopLevel(fields) ==
    \A n \in DOMAIN fields :
        fields[n].key # "_parse_error" => fields[n].key = TopLevelKey(fields[n].field_id)

\* C20: the name map is built in one step, taken once, after the header is
\* read and before any struct or field is read, and no other step changes
\* it; and in every struct, whatever its nesting level, the entry of a field
\* of id i is stored under the name that map gives to i, or field_<i>.
NameMapBuiltOnceForAllLevels ==
    /\ [][/\ (pc' = "map" /\ pc # "map") => pc = "begin"
          /\ pc = "map" =>
                 /\ pc' = "body"
                 /\ dec.structs = << >> /\ dec.reads = << >> /\ stack = << >>
                 /\ dec.pos = dec'.pos
          /\ pc # "map" => dec'.field_name_map = dec.field_name_map
          /\ pc \in {"body", "struct", "done"} => pc' \in {"body", "struct", "done"}]_vars
    /\ [](/\ \A n \in DOMAIN stack :
                 stack[n].fn = "read_struct" => KeyedByTopLevel(stack[n].fields)
          /\ StructReturned => KeyedByTopLevel(ret.val.fields))

\* C20 witness: a FetchResults Call decoded with the registry holds field 1
\* under operationHandle at three nested levels, and field 9 of the
\* innermost struct under field_9.
HandleAtThreeLevels ==
    /\ pc = "done"
    /\ result.kind = "message"
    /\ result.field_names_resolved
    /\ result.struct_type = "Request"
    /\ data = StrictHeader(NameFetchResults, MESSAGE_TYPE_CALL, 7) \o NestedHandle
    /\ LET Handle(level) == level.fields[1].key = "operationHandle"
           Inner(level) == level.fields[1].value
       IN  /\ Handle(result.fields)
           /\ Handle(Inner(result.fields))
           /\ Handle(Inner(Inner(result.fields)))
           /\ Inner(Inner(result.fields)).fields[2].key = "field_9"

\* ------------------------------------------------------- claims C21 - C30
\* ---------------------------------------------------------------- C21
\* The type tags read_field_value and skip_field have a branch for
Recognized ==
    {T_BOOL, T_BYTE, T_I16, T_I32, T_I64, T_DOUBLE, T_STRING, T_STRUCT, T_MAP, T_SET, T_LIST}

\* read_field_value has been called for a field of the read_struct on top of
\* the stack whose tag is not recognized, and its outcome is at hand.
UnknownTagPending ==
    /\ pc = "struct"
    /\ stack # << >>
    /\ ret.st # "none"
    /\ Top(Both[1]).fn = "read_struct"
    /\ Top(Both[1]).field_type \notin Recognized

\* C21: for a field whose tag is not recognized read_field_value returns the
\* placeholder that shows the tag as read from the wire, with the cursor
\* still just after the field's id; read_struct stores it as the field's
\* value, with no error, moves the cursor no further and stays in its loop;
\* and what the struct reads next is the field header that follows.
UnknownTagIsPlaceholder ==
    /\ [](UnknownTagPending =>
              /\ ret = RetValue(StrLit("<unknown_type:"
                     \o ToString(Signed(<<data[Top(Both[1]).start - 2]>>)) \o ">"))
              /\ dec.pos = Top(Both[1]).start)
    /\ [][UnknownTagPending =>
              /\ Len(stack') = Len(stack)
              /\ ret'.st = "none"
              /\ dec'.pos = dec.pos
              /\ \E n \in DOMAIN stack'[Len(stack')].fields :
                     LET e == stack'[Len(stack')].fields[n]
                     IN  /\ e.field_id = Top(Both[1]).field_id
                         /\ "error" \notin DOMAIN e
                         /\ "value" \in DOMAIN e
                         /\ e.value = ret.val]_vars
    /\ [](\A r0 \in Events(dec.reads) :
              r0.tag \notin Recognized => ResumesAt(r0, r0.at + 3))

\* C21 witness: a message whose struct holds the placeholder of tag 7 and,
\* after it, the entry of the field that followed.
UnknownTagThenSibling ==
    /\ pc = "done"
    /\ result.kind = "message"
    /\ \E n \in DOMAIN result.fields.fields :
           /\ n < Len(result.fields.fields)
           /\ "value" \in DOMAIN result.fields.fields[n]
           /\ result.fields.fields[n].value = StrLit("<unknown_type:7>")

\* ---------------------------------------------------------------- C22
\* The bytes of the method name of a whole header
NameOnWire(b) ==
    IF LeadingInt(b) >= 0 THEN SubSeq(b, 5, 4 + NameLength(b))
    ELSE SubSeq(b, 9, 8 + NameLength(b))

\* b starts with a whole header whose version marker is valid.
WholeHeader(b) ==
    /\ Len(b) >= 4
    /\ ~InvalidVersion(b)
    /\ ~EndsInsideHeader(b)
    /\ NameLength(b) \in 0..MaxStringLength

\* The hex preview of bytes: the first PreviewBytes of them, and the mark
\* of an ellipsis when there are more.
PreviewOf(bytes) ==
    StrBinary(SubSeq(bytes, 1, Min(Len(bytes), PreviewBytes)), Len(bytes) > PreviewBytes)

\* C22: the decode of a buffer that starts with a whole header whose method
\* name is not UTF-8 ends with a message result that shows the name as its
\* hex preview; and a STRING field whose bytes are all there and are not
\* UTF-8 is read as their hex preview, with the cursor 4 plus the declared
\* length further.
TextNeverAborts ==
    /\ (pc = "done" /\ WholeHeader(data) /\ ~Utf8Valid(NameOnWire(data))) =>
           /\ result.kind = "message"
           /\ result.method = PreviewOf(NameOnWire(data))
    /\ (/\ pc = "struct"
        /\ stack # << >>
        /\ ret.st # "none"
        /\ Top(Both[1]).fn = "read_struct"
        /\ Top(Both[1]).field_type = T_STRING
        /\ Top(Both[1]).start + 4 <= Len(data)) =>
           LET at == Top(Both[1]).start
               Declared(length) ==
                   (/\ length \in 0..MaxStringLength
                    /\ at + 4 + length <= Len(data)
                    /\ ~Utf8Valid(SubSeq(data, at + 5, at + 4 + length))) =>
                       /\ ret = RetValue(PreviewOf(SubSeq(data, at + 5, at + 4 + length)))
                       /\ dec.pos = at + 4 + length
           IN  Declared(Signed(SubSeq(data, at + 1, at + 4)))

\* ---------------------------------------------------------------- C23
\* The wire width of the five fixed-width readers
WidthOf(op) ==
    CASE op = "read_byte" -> 1
      [] op = "read_i16" -> 2
      [] op = "read_i32" -> 4
      [] op \in {"read_i64", "read_double"} -> 8

\* The bytes the stream still held when the last call began
Remaining == Len(data) - result.before.spos

\* The length the bytes at the cursor declare (four of them are there)
DeclaredLength ==
    Signed(SubSeq(data, result.before.spos + 1, result.before.spos + 4))

\* C23: a fixed-width reader returns and moves pos by its width when that
\* many bytes remain, and else raises and leaves pos where it was;
\* read_string raises for a negative length and for one above 10 MiB, takes
\* 10 MiB as any other length, returns and moves pos by 4 plus the length
\* when that many bytes remain, and else raises and leaves pos where it was.
ReadersMoveByWidth ==
    (pc = "cursor" /\ result # PyNone) =>
        IF result.op # "read_string"
        THEN IF Remaining >= WidthOf(result.op)
             THEN ret.st = "value" /\ dec.pos = result.before.pos + WidthOf(result.op)
             ELSE ret.st = "raise" /\ dec.pos = result.before.pos
        ELSE IF Remaining < 4
             THEN ret.st = "raise" /\ dec.pos = result.before.pos
             ELSE IF DeclaredLength < 0 \/ DeclaredLength > MaxStringLength
             THEN ret.st = "raise" /\ ret.exc = "ValueError"
             ELSE IF Remaining >= 4 + DeclaredLength
             THEN ret.st = "value" /\ dec.pos = result.before.pos + 4 + DeclaredLength
             ELSE /\ ret.st = "raise"
                  /\ ret.exc = "EOFError"
                  /\ dec.pos = result.before.pos

\* ---------------------------------------------------------------- C24
\* C24: whatever decode_thrift_message returned (None, an error result, a
\* message result), format_thrift_message returns a text and raises nothing.
FormatNeverRaises ==
    pc = "formatted" =>
        /\ ret.st = "value"
        /\ ret.val.k = "text"
        /\ Len(ret.val.text) > 0
        /\ ret.val.text = Joined(ret.val.lines)

\* C24 witness: a text was returned for a message whose field holds a nested
\* struct with an error entry in it.
NestedErrorFormatted ==
    /\ pc = "formatted"
    /\ ret.st = "value"
    /\ result.kind = "message"
    /\ \E e \in EntriesOf(result.fields) :
           /\ "value" \in DOMAIN e
           /\ e.value.k = "struct"
           /\ RecordsError(e.value)

\* ---- C25 ----------------------------------------------------------------
\* What a field's line starts with, before the text of its value
LineLabel(e) ==
    IF "type" \in DOMAIN e
    THEN "  " \o e.key
             \o (IF e.field_id # 0 THEN " [id=" \o ToString(e.field_id) \o "]" ELSE "")
             \o " (" \o e.type \o "): "
    ELSE "  " \o e.key \o ": "

\* The text of a field's value, before any truncation
ValueText(e) ==
    IF "type" \in DOMAIN e
    THEN (IF "value" \in DOMAIN e THEN Str(e.value) ELSE e.error)
    ELSE e.text

Ellipsis == "..."

\* The part of the n-th field's line that follows its label
ShownValue(lines, fields, n) ==
    LET line == lines[Len(lines) - Len(fields) + n]
    IN  SubSeq(line, Len(LineLabel(fields[n])) + 1, Len(line))

FormattedMessage ==
    /\ pc = "formatted" /\ ret.st = "value" /\ result.kind = "message"

\* C25: in the text format_thrift_message produces, each field's value is
\* rendered as its text unchanged when that has at most max_field_length
\* characters, and otherwise as its first max_field_length characters
\* followed by an ellipsis; no rendering is longer than max_field_length
\* plus the ellipsis.
ValueTextIsClipped ==
    FormattedMessage =>
        LET sorted == SortedItems(result.fields.fields)
            limit == ret.val.max_field_length
        IN  \A n \in DOMAIN sorted :
                LET text == ValueText(sorted[n])
                    shown == ShownValue(ret.val.lines, sorted, n)
                IN  /\ SubSeq(ret.val.lines[Len(ret.val.lines) - Len(sorted) + n],
                              1, Len(LineLabel(sorted[n]))) = LineLabel(sorted[n])
                    /\ Len(text) <= limit => shown = text
                    /\ Len(text) > limit =>
                           shown = SubSeq(text, 1, limit) \o Ellipsis
                    /\ Len(shown) <= limit + Len(Ellipsis)

\* Two fields formatted with the default limit, one whose text has exactly
\* max_field_length characters and one with one character more
ClippedAtTheLimit ==
    /\ FormattedMessage
    /\ ret.val.max_field_length = DefaultFieldLength
    /\ \E e \in EntriesOf(result.fields) : Len(ValueText(e)) = DefaultFieldLength
    /\ \E e \in EntriesOf(result.fields) : Len(ValueText(e)) = DefaultFieldLength + 1

\* ---- C26 ----------------------------------------------------------------
RECURSIVE IterationsOf(_)
\* The loop iterations started by the collection headers handled so far
IterationsOf(colls) ==
    IF Len(colls) = 0 THEN 0 ELSE colls[1].iters + IterationsOf(Tail(colls))

\* The iterations a buffer of this length may cost: an iteration that
\* consumes a byte is one of at most `length`, and the others belong to a
\* header, of which there are fewer than `length`, that is to start no more
\* than MaxCollection of them.
IterationBudget(length) == length * (MaxCollection + 1)

\* Every iteration of read_struct that stays in the loop has read the tag
\* and the id of a field: the offsets of these fields only grow.
StructLoopAdvances ==
    \A i, j \in DOMAIN dec.reads : i < j => dec.reads[i].at < dec.reads[j].at

\* C26: every iteration of the read_struct loop consumes at least one byte
\* or leaves the loop, and the loop iterations over struct fields and
\* collection elements, on the read path and on the skip path, are bounded
\* by a function of the buffer length and the depth and size ceilings.
IterationsAreBounded ==
    /\ StructLoopAdvances
    /\ Len(dec.reads) + IterationsOf(dec.colls) <= IterationBudget(Len(data))

\* ---- C27 ----------------------------------------------------------------
RECURSIVE HasPlaceholder(_)
\* A placeholder stands somewhere in the value: a text written by the
\* decoder in place of a value ("<max_depth_exceeded>", "<unknown_type:n>",
\* "<large_list: n entries>", ...) or the depth dict.
HasPlaceholder(v) ==
    CASE v.k = "str" -> "lit" \in DOMAIN v
      [] v.k = "dict" -> TRUE
      [] v.k = "struct" ->
            \E i \in DOMAIN v.fields :
                "value" \in DOMAIN v.fields[i] /\ HasPlaceholder(v.fields[i].value)
      [] v.k = "list" -> \E i \in DOMAIN v.items : HasPlaceholder(v.items[i].val)
      [] v.k = "map" ->
            \E i \in DOMAIN v.items :
                HasPlaceholder(v.items[i].key) \/ HasPlaceholder(v.items[i].val)
      [] OTHER -> FALSE

\* read_field_value has just returned the value of a field to read_struct,
\* with no placeholder in it, from a cursor whose two positions agree.
FieldValueReturned ==
    /\ pc = "struct" /\ Len(stack) > 0 /\ ret.st = "value"
    /\ stack[Len(stack)].fn = "read_struct"
    /\ dec.pos = dec.spos
    /\ ~HasPlaceholder(ret.val)

\* skip_field called where that read_field_value was, same tag, same depth
SkipOfLastField ==
    LET f == stack[Len(stack)]
    IN  skip_field([dec EXCEPT !.pos = f.start, !.spos = f.start], f.field_type, f.max_depth)

\* C27: wherever read_field_value(tag, d) returns without error and with no
\* placeholder, skip_field(tag, d) from the same cursor position succeeds
\* and leaves the cursor where read_field_value left it.
SkipMirrorsRead ==
    FieldValueReturned =>
        /\ SkipOfLastField.ok
        /\ SkipOfLastField.s.pos = dec.pos
        /\ SkipOfLastField.s.spos = dec.spos

\* ---- C28 ----------------------------------------------------------------
\* A decoder has been constructed.
Constructed == pc \notin {"start"} /\ dec # NoDecoder

\* pos never decreases.
PosNeverDecreases == [][(Constructed /\ Constructed') => dec'.pos >= dec.pos]_vars

\* 0 <= pos <= data_len
PosWithinBuffer == Constructed => (0 <= dec.pos /\ dec.pos <= Len(dec.data))

\* pos is the read position of the stream.
PosIsStreamPosition == Constructed => dec.pos = dec.spos

\* bytes_decoded of a result is the number of bytes taken from the stream.
BytesDecodedIsConsumed ==
    (pc = "done" /\ result.kind \in {"message", "error"}) =>
        result.bytes_decoded = dec.spos

\* C28: in every state of a decoder pos is the read position of the
\* stream, pos never decreases and 0 <= pos <= data_len, so that
\* bytes_decoded of every result, message or error, is the number of bytes
\* of the buffer that were consumed.
PosTracksStream ==
    /\ PosNeverDecreases
    /\ [](PosWithinBuffer /\ PosIsStreamPosition /\ BytesDecodedIsConsumed)

\* pos is behind the stream only once a read has come up short, and the
\* stream is then at the end of the buffer.
PosBehindOnlyAtEnd ==
    Constructed =>
        /\ dec.pos <= dec.spos /\ dec.spos <= Len(dec.data)
        /\ dec.pos < dec.spos => dec.spos = Len(dec.data)

\* bytes_decoded of a result is pos.
BytesDecodedIsPos ==
    (pc = "done" /\ result.kind \in {"message", "error"}) =>
        result.bytes_decoded = dec.pos

\* C28 as amended: pos never decreases, 0 <= pos <= data_len, pos is the
\* read position of the stream until a read comes up short and from then on
\* the stream is at the end of the buffer while pos counts the bytes of the
\* reads that succeeded; bytes_decoded of every result is that count.
PosFollowsStream ==
    /\ PosNeverDecreases
    /\ [](PosWithinBuffer /\ PosBehindOnlyAtEnd /\ BytesDecodedIsPos)

\* A message result whose bytes_decoded is less than the bytes consumed
ShortReadInMessage ==
    /\ pc = "done" /\ result.kind = "message"
    /\ result.bytes_decoded > 0
    /\ result.bytes_decoded < dec.spos
    /\ dec.spos = result.total_bytes

\* ---- C29 ----------------------------------------------------------------
\* The bytes of a collection header: the element tags (two for a MAP) and
\* the count
HeaderBytes(kind) == IF kind = "MAP" THEN 6 ELSE 5

\* C29: a MAP, SET or LIST of negative count is an empty collection and no
\* error: no iteration is started, the call returns (on the read path a
\* collection of no element), and the cursor is left just after the header,
\* 6 bytes for a MAP and 5 for a SET or LIST, on the read path and on the
\* skip path.
NegativeCountIsEmpty ==
    /\ \A c \in Events(dec.colls) :
           c.declared < 0 =>
               /\ c.iters = 0
               /\ c.entries = 0
               /\ c.end = c.at + HeaderBytes(c.kind)
    /\ \A i \in DOMAIN stack :
           (stack[i].fn # "read_struct" /\ stack[i].size < 0) =>
               /\ stack[i].iters = 0
               /\ i = Len(stack) /\ ret.st = "none"
               /\ dec.pos = stack[i].at + HeaderBytes(CollKind(stack[i].fn))
    /\ (pc = "struct" /\ Len(stack) > 0 /\ ret.st = "value"
          /\ stack[Len(stack)].fn = "read_struct"
          /\ stack[Len(stack)].field_type \in {T_MAP, T_SET, T_LIST}
          /\ dec.pos = dec.spos
          /\ I32At(data, stack[Len(stack)].start
                            + HeaderBytes(TYPE_NAMES(stack[Len(stack)].field_type)) - 4) < 0)
             => /\ ret.val \in {PyList(<< >>), PyMap(<< >>)}
                /\ dec.pos = stack[Len(stack)].start
                                 + HeaderBytes(TYPE_NAMES(stack[Len(stack)].field_type))

\* Negative counts met three times on the read path and three times on the
\* skip path, and the BYTE that follows them read as a field
NegativeCountsThenSibling ==
    /\ pc = "done" /\ result.kind = "message"
    /\ \A p \in {"read", "skip"}, k \in {"MAP", "SET", "LIST"} :
           \E c \in Events(dec.colls) : c.path = p /\ c.kind = k /\ c.declared < 0
    /\ \E e \in EntriesOf(result.fields) :
           e.field_id = 2 /\ "value" \in DOMAIN e /\ e.value = PyInt(7)
    /\ \E e \in EntriesOf(result.fields) :
           e.field_id = 4 /\ "value" \in DOMAIN e /\ e.value = PyList(<< >>)

\* ---- C30 ----------------------------------------------------------------
DepthMessage == "Maximum recursion depth exceeded while skipping field"

\* The recovery skip_field of the field whose read has just failed
SkipAfterFailure ==
    skip_field(dec, stack[Len(stack)].field_type, stack[Len(stack)].max_depth)

\* C30: every container level, MAP, SET and LIST as well as STRUCT, takes
\* one unit of depth: the i-th active call from the outside, counting the
\* struct of the message as the first, reads its fields or elements, which
\* i - 1 containers enclose below a top-level field, with depth
\* 32 - (i - 1); an element read with depth 0 is the depth placeholder and
\* no byte is consumed for it; and skip_field called with depth 0 raises,
\* whatever the tag.
EachContainerTakesOneLevel ==
    /\ \A i \in DOMAIN stack : stack[i].max_depth = DefaultMaxDepth - (i - 1)
    /\ (pc = "struct" /\ Len(stack) > 0 /\ ret.st # "none"
           /\ stack[Len(stack)].fn # "read_struct"
           /\ stack[Len(stack)].max_depth = 0)
          => /\ ret = RetValue(StrLit("<max_depth_exceeded>"))
             /\ Mark(dec) = stack[Len(stack)].mark
    /\ pc = "struct" =>
          \A tag \in -1..16 :
              LET r == skip_field(dec, tag, 0)
              IN  ~r.ok /\ r.exc = "ValueError" /\ r.msg = DepthMessage
                    /\ Mark(r.s) = Mark(dec)

\* An element has just been read with no depth left, under as many
\* containers as the ceiling counts
ElementAtDepthZero ==
    /\ pc = "struct" /\ Len(stack) = DefaultMaxDepth + 1 /\ ret.st = "value"
    /\ stack[Len(stack)].fn \in {"_read_list", "_read_set"}
    /\ stack[Len(stack)].max_depth = 0
    /\ stack[Len(stack)].elem_type = T_BYTE

\* A recovery skip is about to fail for lack of depth, two LIST levels
\* below a struct with depth 2
SkipOutOfDepth ==
    /\ pc = "struct" /\ Len(stack) > 0 /\ ret.st = "raise"
    /\ stack[Len(stack)].fn = "read_struct"
    /\ stack[Len(stack)].max_depth = 2
    /\ ~SkipAfterFailure.ok /\ SkipAfterFailure.msg = DepthMessage


====
